---- MODULE Spec2Model ----
(***************************************************************************)
(* Model of the task store (task_manager.py), the MongoDB sync engine      *)
(* (cloud_sync.py) and the sync command of the CLI (task_cli.py).          *)
(*                                                                         *)
(* Representation                                                          *)
(*   - Optional values: None is the empty tuple, a present value x is the  *)
(*     one-element tuple <<x>>.                                            *)
(*   - Strings built by the program (task ids) are tuples of decimal       *)
(*     digits: str(12) is <<1, 2>>.                                        *)
(*   - A Python dict is a pair of a key order (insertion order) and a      *)
(*     function on the keys.                                               *)
(*   - Timestamps are readings of a non-decreasing clock.                  *)
(*   - Enum members are "LOW", "PENDING", ...; their values are the        *)
(*     lower-case strings stored in dictionaries.                          *)
(***************************************************************************)
EXTENDS Integers, Sequences, FiniteSets, TLC

VARIABLES
    tasks,      \* TaskManager.tasks: key -> Task
    order,      \* insertion order of the keys of TaskManager.tasks
    disk,       \* the JSON document at db_path: None or <<[order, map]>>
    remote,     \* the MongoDB collection: sequence of records
    client,     \* MongoDBCloudSync.client after _connect
    now,        \* the last reading of the clock
    ret,        \* what the last call did and returned
    handed,     \* history: the ids returned by add_task, in call order
    addsOnly,   \* history: no delete_task or import_tasks has run so far
    everDone,   \* history: keys whose task has had status COMPLETED
    prev,       \* history: tasks, order, disk and remote before the last call
    steps,      \* number of calls made so far
    limit,      \* number of calls the session makes
    fs,         \* what the file system does with a write of db_path
    peer,       \* a second TaskManager on the same document, and the writes
                \* the two have begun
    outage      \* history: a remote call of a command has raised

vars == <<tasks, order, disk, remote, client, now, ret, handed, addsOnly, everDone, prev, steps, limit, fs, peer, outage>>

----------------------------------------------------------------------------
(* Bounds *)

MaxSteps == 4

MaxSyncSteps == 3

MaxAdds == 10

MaxClock == 3

MaxQuerySteps == 4

MaxDiskSteps == 3

MaxHealthSteps == 3

MaxLoadSteps == 4

MaxRoundTrips == 1

MaxPeerSteps == 5

----------------------------------------------------------------------------
(* Optional values *)

None == <<>>

Some(x) == <<x>>

IsNone(o) == o = <<>>

Val(o) == o[1]

----------------------------------------------------------------------------
(* Sequence helpers *)

Range(s) == {s[i] : i \in 1..Len(s)}

Without(s, x) == SelectSeq(s, LAMBDA y : y # x)

Min(a, b) == IF a <= b THEN a ELSE b

RECURSIVE DecStr(_)
\* str(n) for n >= 0: the decimal digits, most significant first
DecStr(n) == IF n < 10 THEN <<n>> ELSE Append(DecStr(n \div 10), n % 10)

----------------------------------------------------------------------------
(* Priority and TaskStatus *)

PriorityMembers == {"LOW", "MEDIUM", "HIGH"}

StatusMembers == {"PENDING", "IN_PROGRESS", "COMPLETED", "CANCELLED"}

PriorityValue(m) ==
    CASE m = "LOW" -> "low"
      [] m = "MEDIUM" -> "medium"
      [] m = "HIGH" -> "high"

StatusValue(m) ==
    CASE m = "PENDING" -> "pending"
      [] m = "IN_PROGRESS" -> "in_progress"
      [] m = "COMPLETED" -> "completed"
      [] m = "CANCELLED" -> "cancelled"

\* Priority(value): the member with that value; None stands for ValueError
PriorityOf(v) ==
    IF \E m \in PriorityMembers : PriorityValue(m) = v
    THEN Some(CHOOSE m \in PriorityMembers : PriorityValue(m) = v)
    ELSE None

\* TaskStatus(value): the member with that value; None stands for ValueError
StatusOf(v) ==
    IF \E m \in StatusMembers : StatusValue(m) = v
    THEN Some(CHOOSE m \in StatusMembers : StatusValue(m) = v)
    ELSE None

----------------------------------------------------------------------------
(* Task *)

\* Task.__post_init__: the defaults of created_at, updated_at and tags
PostInit(t, clock) ==
    LET c == IF IsNone(t.created_at) THEN Some(clock) ELSE t.created_at
        u == IF IsNone(t.updated_at) THEN c ELSE t.updated_at
    IN  [t EXCEPT !.created_at = c, !.updated_at = u]

\* a slip: the enum members written by name
ToDict_MemberNames(t) == t

\* Task.to_dict
ToDict(t) ==
    [t EXCEPT !.priority = PriorityValue(t.priority),
              !.status = StatusValue(t.status)]

\* Task.from_dict raises exactly when the priority or the status is no value
\* of its enum
Deserializes(d) == ~IsNone(PriorityOf(d.priority)) /\ ~IsNone(StatusOf(d.status))

\* a slip: the timestamps of the dictionary not passed on
FromDict_NewStamps(d, clock) ==
    PostInit([d EXCEPT !.priority = Val(PriorityOf(d.priority)),
                       !.status = Val(StatusOf(d.status)),
                       !.created_at = None,
                       !.updated_at = None], clock)

\* Task.from_dict for a dictionary that deserializes
FromDict(d, clock) ==
    PostInit([d EXCEPT !.priority = Val(PriorityOf(d.priority)),
                       !.status = Val(StatusOf(d.status))], clock)

----------------------------------------------------------------------------
(* Python dict, as order + map *)

EmptyMap == [k \in {} |-> None]

\* d[k] = v
Put(m, k, v) == [j \in DOMAIN m \cup {k} |-> IF j = k THEN v ELSE m[j]]

PutOrder(o, k) == IF k \in Range(o) THEN o ELSE Append(o, k)

\* a slip: the mapping cleared
Del_All(m, k) == [j \in {} |-> m[j]]

\* del d[k]
Del(m, k) == [j \in DOMAIN m \ {k} |-> m[j]]

----------------------------------------------------------------------------
(* TaskManager *)

\* a slip: the count of the tasks, without the + 1
NextId_FromZero(m) == DecStr(Cardinality(DOMAIN m))

\* task_id = str(len(self.tasks) + 1)
NextId(m) == DecStr(Cardinality(DOMAIN m) + 1)

\* the Task built by add_task
\* a slip: the priority argument dropped
NewTask_DefaultPriority(id, a, clock) ==
    PostInit([id |-> id, title |-> a.title, description |-> a.description,
              priority |-> "MEDIUM", status |-> "PENDING", created_at |-> None,
              updated_at |-> None, completed_at |-> None, tags |-> a.tags,
              due_date |-> a.due_date], clock)

NewTask(id, a, clock) ==
    PostInit([id |-> id,
              title |-> a.title,
              description |-> a.description,
              priority |-> IF IsNone(a.priority) THEN "MEDIUM" ELSE Val(a.priority),
              status |-> "PENDING",
              created_at |-> None,
              updated_at |-> None,
              completed_at |-> None,
              tags |-> a.tags,
              due_date |-> a.due_date], clock)

\* a slip: completed_at stamped at every update to COMPLETED
UpdatedTask_AlwaysStamp(t, a, c1, c2) ==
    [t EXCEPT
       !.title = IF IsNone(a.title) THEN @ ELSE Val(a.title),
       !.description = IF IsNone(a.description) THEN @ ELSE a.description,
       !.priority = IF IsNone(a.priority) THEN @ ELSE Val(a.priority),
       !.status = IF IsNone(a.status) THEN @ ELSE Val(a.status),
       !.completed_at = IF a.status = Some("COMPLETED") THEN Some(c2) ELSE @,
       !.tags = IF IsNone(a.tags) THEN @ ELSE Val(a.tags),
       !.due_date = IF IsNone(a.due_date) THEN @ ELSE a.due_date,
       !.updated_at = Some(c2)]

\* a slip: what the call leaves out goes back to its default
UpdatedTask_ResetsUnsupplied(t, a, c1, c2) ==
    [t EXCEPT
       !.title = IF IsNone(a.title) THEN @ ELSE Val(a.title),
       !.description = a.description,
       !.priority = IF IsNone(a.priority) THEN "MEDIUM" ELSE Val(a.priority),
       !.status = IF IsNone(a.status) THEN @ ELSE Val(a.status),
       !.completed_at = IF a.status = Some("COMPLETED") /\ IsNone(@) THEN Some(c1) ELSE @,
       !.tags = IF IsNone(a.tags) THEN @ ELSE Val(a.tags),
       !.due_date = IF IsNone(a.due_date) THEN @ ELSE a.due_date,
       !.updated_at = Some(c2)]

\* the field assignments of update_task; c1 and c2 are the two clock readings
UpdatedTask(t, a, c1, c2) ==
    [t EXCEPT
       !.title = IF IsNone(a.title) THEN @ ELSE Val(a.title),
       !.description = IF IsNone(a.description) THEN @ ELSE a.description,
       !.priority = IF IsNone(a.priority) THEN @ ELSE Val(a.priority),
       !.status = IF IsNone(a.status) THEN @ ELSE Val(a.status),
       !.completed_at = IF a.status = Some("COMPLETED") /\ IsNone(@) THEN Some(c1) ELSE @,
       !.tags = IF IsNone(a.tags) THEN @ ELSE Val(a.tags),
       !.due_date = IF IsNone(a.due_date) THEN @ ELSE a.due_date,
       !.updated_at = Some(c2)]

\* export_tasks / the document written by _save_tasks
Export(o, m) == [order |-> o, map |-> [k \in DOMAIN m |-> ToDict(m[k])]]

RECURSIVE ImportedMap_NewerWins(_, _, _, _)
\* a slip: an entry replaces the local task only when it is not older
ImportedMap_NewerWins(m, b, i, clock) ==
    IF i > Len(b.order) THEN m
    ELSE LET k == b.order[i]
             t == FromDict(b.map[k], clock)
         IN  IF Deserializes(b.map[k])
                /\ (k \in DOMAIN m => Val(t.updated_at) >= Val(m[k].updated_at))
             THEN ImportedMap_NewerWins(Put(m, k, t), b, i + 1, clock)
             ELSE ImportedMap_NewerWins(m, b, i + 1, clock)

\* a slip: a field the entry leaves out keeps the local task's value
MergedTask(old, t) ==
    [t EXCEPT !.description = IF IsNone(@) THEN old.description ELSE @,
              !.completed_at = IF IsNone(@) THEN old.completed_at ELSE @,
              !.due_date = IF IsNone(@) THEN old.due_date ELSE @]

RECURSIVE ImportedMap_Merge(_, _, _, _)
ImportedMap_Merge(m, b, i, clock) ==
    IF i > Len(b.order) THEN m
    ELSE LET k == b.order[i]
             t == FromDict(b.map[k], clock)
         IN  IF Deserializes(b.map[k])
             THEN ImportedMap_Merge(
                      Put(m, k, IF k \in DOMAIN m THEN MergedTask(m[k], t) ELSE t),
                      b, i + 1, clock)
             ELSE ImportedMap_Merge(m, b, i + 1, clock)

RECURSIVE ImportedMap_StopAtBad(_, _, _, _)
\* a slip: the try around the loop instead of inside it
ImportedMap_StopAtBad(m, b, i, clock) ==
    IF i > Len(b.order) THEN m
    ELSE LET k == b.order[i]
         IN  IF Deserializes(b.map[k])
             THEN ImportedMap_StopAtBad(Put(m, k, FromDict(b.map[k], clock)), b, i + 1, clock)
             ELSE m

RECURSIVE ImportedMap(_, _, _, _)
\* the loop of import_tasks over the entries of the batch from position i
ImportedMap(m, b, i, clock) ==
    IF i > Len(b.order) THEN m
    ELSE LET k == b.order[i]
         IN  IF Deserializes(b.map[k])
             THEN ImportedMap(Put(m, k, FromDict(b.map[k], clock)), b, i + 1, clock)
             ELSE ImportedMap(m, b, i + 1, clock)

RECURSIVE ImportedOrder(_, _, _)
ImportedOrder(o, b, i) ==
    IF i > Len(b.order) THEN o
    ELSE LET k == b.order[i]
         IN  IF Deserializes(b.map[k])
             THEN ImportedOrder(PutOrder(o, k), b, i + 1)
             ELSE ImportedOrder(o, b, i + 1)

----------------------------------------------------------------------------
(* MongoDBCloudSync: the collection and the three data operations *)

CliUser == "default_user"

Users == {CliUser, "other_user"}

Matches(r, k, u) == r.task_id = k /\ r.user_id = u

HasRecord(coll, k, u) == \E i \in 1..Len(coll) : Matches(coll[i], k, u)

FirstMatch(coll, k, u) == CHOOSE i \in 1..Len(coll) :
    Matches(coll[i], k, u) /\ \A j \in 1..(i - 1) : ~Matches(coll[j], k, u)

\* a slip: insert_one in place of the upsert
Upsert_Insert(coll, rec) == Append(coll, rec)

\* collection.update_one({task_id, user_id}, {"$set": rec}, upsert=True)
Upsert(coll, rec) ==
    IF HasRecord(coll, rec.task_id, rec.user_id)
    THEN [coll EXCEPT ![FirstMatch(coll, rec.task_id, rec.user_id)] = rec]
    ELSE Append(coll, rec)

\* collection.delete_one({task_id, user_id})
\* a slip: the record left in the collection
DeleteFirst_Keep(coll, k, u) == coll

DeleteFirst(coll, k, u) ==
    IF HasRecord(coll, k, u)
    THEN LET i == FirstMatch(coll, k, u)
         IN  SubSeq(coll, 1, i - 1) \o SubSeq(coll, i + 1, Len(coll))
    ELSE coll

CloudTask(k, u, d, clock) == [task_id |-> k, user_id |-> u, data |-> d, synced_at |-> clock]

RECURSIVE UpsertFirst_FirstData(_, _, _, _, _)
\* a slip: every record given the data of the first task
UpsertFirst_FirstData(coll, b, u, n, clock) ==
    IF n = 0 THEN coll
    ELSE Upsert(UpsertFirst_FirstData(coll, b, u, n - 1, clock),
                CloudTask(b.order[n], u, b.map[b.order[1]], clock))

RECURSIVE UpsertFirst(_, _, _, _, _)
\* the upsert loop of sync_tasks_to_cloud over the first n entries of the batch
UpsertFirst(coll, b, u, n, clock) ==
    IF n = 0 THEN coll
    ELSE Upsert(UpsertFirst(coll, b, u, n - 1, clock),
                CloudTask(b.order[n], u, b.map[b.order[n]], clock))

\* a slip: the filter on user_id left out
Find_AllUsers(coll, u) == coll

\* collection.find({"user_id": u}, {task_id, data})
Find(coll, u) == SelectSeq(coll, LAMBDA r : r.user_id = u)

RECURSIVE LocalFormat(_, _)
\* the re-keying loop of sync_tasks_from_cloud over the first n records found
LocalFormat(found, n) ==
    IF n = 0 THEN [order |-> <<>>, map |-> EmptyMap]
    ELSE LET b == LocalFormat(found, n - 1)
             r == found[n]
         IN  [order |-> PutOrder(b.order, r.task_id),
              map |-> Put(b.map, r.task_id, r.data)]

\* what sync_tasks_from_cloud returns when find succeeds
PulledTasks(coll, u) == LocalFormat(Find(coll, u), Len(Find(coll, u)))

----------------------------------------------------------------------------
(* Inputs *)

Keys == {DecStr(1), DecStr(2)}

AddArgs ==
    { [title |-> "Buy milk", description |-> None, priority |-> None,
       tags |-> <<>>, due_date |-> None],
      [title |-> "Write report", description |-> Some("quarterly"),
       priority |-> Some("HIGH"), tags |-> <<"work">>,
       due_date |-> Some("2024-01-01T00:00:00")] }

NoArgs == [title |-> None, description |-> None, priority |-> None,
           status |-> None, tags |-> None, due_date |-> None]

\* complete_task: update_task(task_id, status=TaskStatus.COMPLETED)
CompleteArgs == [NoArgs EXCEPT !.status = Some("COMPLETED")]

UpdateArgs ==
    { [NoArgs EXCEPT !.status = Some("IN_PROGRESS")],
      [NoArgs EXCEPT !.status = Some("COMPLETED")],
      [NoArgs EXCEPT !.title = Some("Renamed"), !.priority = Some("LOW"),
                     !.description = Some("details"), !.tags = Some(<<>>)] }

\* a dictionary as to_dict writes it
Dict(id, title, priority, status, created, updated, completed, tags) ==
    [id |-> id, title |-> title, description |-> None, priority |-> priority,
     status |-> status, created_at |-> created, updated_at |-> updated,
     completed_at |-> completed, tags |-> tags, due_date |-> None]

CloudTask1 == Dict(DecStr(1), "Cloud Task 1", "high", "pending", Some(1), Some(1), None, <<>>)

\* status completed, no completed_at (the second task of test_import_tasks)
CloudTask2 == Dict(DecStr(2), "Cloud Task 2", "medium", "completed", Some(1), Some(1), None, <<"cloud">>)

\* a task completed and reopened on another machine
Reopened == Dict(DecStr(1), "Reopened", "low", "in_progress", Some(1), Some(2), Some(1), <<>>)

\* written by a machine whose clock was set back between create and update
ClockSkew == Dict(DecStr(2), "Skewed", "low", "pending", Some(2), Some(1), None, <<>>)

\* no timestamps: __post_init__ supplies them
NoStamps == Dict(DecStr(1), "No stamps", "medium", "pending", None, None, None, <<>>)

BadPriority == Dict(DecStr(1), "Bad priority", "urgent", "pending", Some(1), Some(1), None, <<>>)

BadStatus == Dict(DecStr(2), "Bad status", "low", "done", Some(1), Some(1), None, <<>>)

ImportBatches ==
    { [order |-> <<DecStr(1), DecStr(2)>>, map |-> (DecStr(1) :> CloudTask1 @@ DecStr(2) :> CloudTask2)],
      [order |-> <<DecStr(1), DecStr(2)>>, map |-> (DecStr(1) :> BadPriority @@ DecStr(2) :> ClockSkew)],
      [order |-> <<DecStr(2), DecStr(1)>>, map |-> (DecStr(2) :> Reopened @@ DecStr(1) :> BadStatus)],
      [order |-> <<DecStr(3)>>, map |-> (DecStr(3) :> NoStamps)] }

\* the batches imported before the queries
QueryBatches ==
    {b \in ImportBatches : b.map[b.order[1]].title \in {"Cloud Task 1", "Reopened"}}

\* what other clients of the same collection may write: <<task_id, user_id, data>>
ForeignWrites ==
    { <<DecStr(1), CliUser, CloudTask1>>,
      <<DecStr(1), CliUser, BadPriority>>,
      <<DecStr(3), CliUser, NoStamps>>,
      <<DecStr(2), "other_user", Reopened>> }

ClientStates == {"unconfigured", "connect_failed", "connected"}

Directions == {"up", "down", "both"}

\* the clock readings that may follow the reading c (the clock never goes back)
Readings(c) == c..Min(c + 1, MaxClock)

\* where a remote call raises: nowhere, at a ping, at the i-th update_one, ...
Failure(at, i) == [at |-> at, i |-> i]

NoFailure == Failure("none", 0)

----------------------------------------------------------------------------
(* State after construction: TaskManager() on an absent or an empty        *)
(* document, MongoDBCloudSync() after _connect                             *)

\* saves: the number of _save_tasks calls the operation made;
\* cause: the exception the raised one was built from, if any
Ret(op, key, arg, res, raised, saves) ==
    [op |-> op, key |-> key, arg |-> arg, res |-> res, raised |-> raised, saves |-> saves,
     cause |-> None]

Snapshot == [tasks |-> tasks, order |-> order, disk |-> disk, remote |-> remote, now |-> now]

\* no second TaskManager yet, no write begun.  writing: the document the
\* running instance has opened db_path to write; pending: the same for the
\* other instance
NoPeer == [opened |-> FALSE, tasks |-> EmptyMap, order |-> <<>>, pending |-> None,
           writing |-> None]

\* Init for a session of n calls
InitFor(n) ==
    /\ limit = n
    /\ tasks = EmptyMap
    /\ order = <<>>
    /\ disk \in {None, Some(Export(<<>>, EmptyMap))}
    /\ remote = <<>>
    /\ client \in ClientStates
    /\ now = 1
    /\ ret = Ret("init", None, None, None, "", 0)
    /\ prev = Snapshot
    /\ handed = <<>>
    /\ addsOnly = TRUE
    /\ everDone = {}
    /\ steps = 0
    /\ fs = "writable"
    /\ peer = NoPeer
    /\ outage = FALSE

\* one more call of the session
Call ==
    /\ steps < limit
    /\ steps' = steps + 1
    /\ prev' = Snapshot
    /\ limit' = limit
    /\ fs' = fs
    /\ peer' = peer
    /\ outage' = outage

----------------------------------------------------------------------------
(* TaskManager operations *)

\* _save_tasks: the whole mapping rewritten
Saved(o, m) == Some(Export(o, m))

\* what open(db_path, 'w') and json.dump can do
FileSystems == {"writable", "denied", "full"}

\* the document a write that ran out of space leaves: truncated by open,
\* then cut short
Torn == [order |-> <<>>, map |-> EmptyMap, cut |-> TRUE]

\* _save_tasks ignoring the failure of the write
SaveTasks_Swallow(f, d, o, m) ==
    IF f = "writable" THEN [disk |-> Saved(o, m), raised |-> ""]
    ELSE IF f = "denied" THEN [disk |-> d, raised |-> ""]
    ELSE [disk |-> Some(Torn), raised |-> ""]

\* _save_tasks on the document d: the failure of the write is logged and
\* raised again
SaveTasks(f, d, o, m) ==
    IF f = "writable" THEN [disk |-> Saved(o, m), raised |-> ""]
    ELSE IF f = "denied" THEN [disk |-> d, raised |-> "OSError"]
    ELSE [disk |-> Some(Torn), raised |-> "OSError"]

\* _load_tasks: an absent document, or one that json.load or from_dict
\* rejects, leaves the mapping empty
Loads(d) ==
    /\ ~IsNone(d)
    /\ "cut" \notin DOMAIN Val(d)
    /\ \A k \in DOMAIN Val(d).map : Deserializes(Val(d).map[k])

\* a slip: the entries from_dict rejects skipped, as import_tasks does
LoadedTasks_SkipBad(d, clock) ==
    IF IsNone(d) \/ "cut" \in DOMAIN Val(d) THEN EmptyMap
    ELSE [k \in {j \in DOMAIN Val(d).map : Deserializes(Val(d).map[j])} |->
            FromDict(Val(d).map[k], clock)]

LoadedTasks(d, clock) ==
    IF Loads(d) THEN [k \in DOMAIN Val(d).map |-> FromDict(Val(d).map[k], clock)]
    ELSE EmptyMap

LoadedOrder(d) == IF Loads(d) THEN Val(d).order ELSE <<>>

\* add_task
AddTask(a) ==
    /\ Call
    /\ \E c \in Readings(now) :
         LET id == NextId(tasks)
             t == NewTask(id, a, c)
             w == SaveTasks(fs, disk, order', tasks')
         IN  /\ tasks' = Put(tasks, id, t)
             /\ order' = PutOrder(order, id)
             /\ disk' = w.disk
             /\ now' = c
             /\ ret' = Ret("add", id, a, IF w.raised = "" THEN Some(t) ELSE None, w.raised, 1)
             /\ handed' = IF w.raised = "" THEN Append(handed, id) ELSE handed
             /\ everDone' = everDone \ {id}
    /\ UNCHANGED <<remote, client, addsOnly>>

\* update_task, called as op ("update", or "complete" from complete_task)
UpdateCall(op, k, a) ==
    /\ Call
    /\ IF k \notin DOMAIN tasks
       THEN /\ ret' = Ret(op, k, a, None, "", 0)
            /\ UNCHANGED <<tasks, order, disk, now, everDone>>
       ELSE \E c1 \in (IF a.status = Some("COMPLETED") /\ IsNone(tasks[k].completed_at)
                       THEN Readings(now) ELSE {now}) :
            \E c2 \in Readings(c1) :
              LET t == UpdatedTask(tasks[k], a, c1, c2)
                  w == SaveTasks(fs, disk, order', tasks')
              IN  /\ tasks' = [tasks EXCEPT ![k] = t]
                  /\ order' = order
                  /\ disk' = w.disk
                  /\ now' = c2
                  /\ ret' = Ret(op, k, a, IF w.raised = "" THEN Some(t) ELSE None, w.raised, 1)
                  /\ everDone' = IF a.status = Some("COMPLETED")
                                 THEN everDone \cup {k} ELSE everDone
    /\ UNCHANGED <<remote, client, handed, addsOnly>>

UpdateTask(k, a) == UpdateCall("update", k, a)

\* complete_task
CompleteTask(k) == UpdateCall("complete", k, CompleteArgs)

\* delete_task
DeleteTask(k) ==
    /\ Call
    /\ IF k \in DOMAIN tasks
       THEN LET w == SaveTasks(fs, disk, order', tasks')
            IN  /\ tasks' = Del(tasks, k)
                /\ order' = Without(order, k)
                /\ disk' = w.disk
                /\ ret' = Ret("delete", k, None, IF w.raised = "" THEN TRUE ELSE None,
                              w.raised, 1)
       ELSE /\ ret' = Ret("delete", k, None, FALSE, "", 0)
            /\ UNCHANGED <<tasks, order, disk>>
    /\ everDone' = everDone \ {k}
    /\ addsOnly' = FALSE
    /\ UNCHANGED <<remote, client, now, handed>>

\* the keys of a batch that import_tasks stores
Stored(b) == {k \in DOMAIN b.map : Deserializes(b.map[k])}

\* history: which keys hold a task that has had status COMPLETED
DoneAfterImport(done, b) ==
    (done \ Stored(b)) \cup {k \in Stored(b) : b.map[k].status = StatusValue("COMPLETED")}

\* import_tasks
ImportTasks(b) ==
    /\ Call
    /\ \E c \in Readings(now) :
         /\ tasks' = ImportedMap(tasks, b, 1, c)
         /\ order' = ImportedOrder(order, b, 1)
         /\ disk' = SaveTasks(fs, disk, order', tasks').disk
         /\ now' = c
         /\ ret' = Ret("import", None, b, None, SaveTasks(fs, disk, order', tasks').raised, 1)
    /\ everDone' = DoneAfterImport(everDone, b)
    /\ addsOnly' = FALSE
    /\ UNCHANGED <<remote, client, handed>>

----------------------------------------------------------------------------
(* TaskManager queries: get_task_statistics and search_tasks.  Text is     *)
(* searched character by character: Chars gives the characters of each     *)
(* string the model uses.                                                  *)

Chars(x) ==
    CASE x = "Buy milk" -> <<"B", "u", "y", " ", "m", "i", "l", "k">>
          [] x = "Write report" -> <<"W", "r", "i", "t", "e", " ", "r", "e", "p", "o", "r", "t">>
          [] x = "quarterly" -> <<"q", "u", "a", "r", "t", "e", "r", "l", "y">>
          [] x = "work" -> <<"w", "o", "r", "k">>
          [] x = "Renamed" -> <<"R", "e", "n", "a", "m", "e", "d">>
          [] x = "details" -> <<"d", "e", "t", "a", "i", "l", "s">>
          [] x = "Cloud Task 1" -> <<"C", "l", "o", "u", "d", " ", "T", "a", "s", "k", " ", "1">>
          [] x = "Cloud Task 2" -> <<"C", "l", "o", "u", "d", " ", "T", "a", "s", "k", " ", "2">>
          [] x = "cloud" -> <<"c", "l", "o", "u", "d">>
          [] x = "Reopened" -> <<"R", "e", "o", "p", "e", "n", "e", "d">>
          [] x = "Skewed" -> <<"S", "k", "e", "w", "e", "d">>
          [] x = "No stamps" -> <<"N", "o", " ", "s", "t", "a", "m", "p", "s">>
          [] x = "Bad priority" -> <<"B", "a", "d", " ", "p", "r", "i", "o", "r", "i", "t", "y">>
          [] x = "Bad status" -> <<"B", "a", "d", " ", "s", "t", "a", "t", "u", "s">>
          [] x = "MILK" -> <<"M", "I", "L", "K">>
          [] x = "QUARTER" -> <<"Q", "U", "A", "R", "T", "E", "R">>
          [] x = "Work" -> <<"W", "o", "r", "k">>
          [] x = "" -> <<>>
          [] x = "urgent" -> <<"u", "r", "g", "e", "n", "t">>
          [] x = "HIGH" -> <<"H", "I", "G", "H">>
          [] x = "low" -> <<"l", "o", "w">>
          [] x = "medium" -> <<"m", "e", "d", "i", "u", "m">>
          [] x = "high" -> <<"h", "i", "g", "h">>
          [] x = "pending" -> <<"p", "e", "n", "d", "i", "n", "g">>
          [] x = "in_progress" -> <<"i", "n", "_", "p", "r", "o", "g", "r", "e", "s", "s">>
          [] x = "completed" -> <<"c", "o", "m", "p", "l", "e", "t", "e", "d">>
          [] x = "cancelled" -> <<"c", "a", "n", "c", "e", "l", "l", "e", "d">>
          [] x = "2024-01-01T00:00:00" ->
               <<"2", "0", "2", "4", "-", "0", "1", "-", "0", "1", "T", "0", "0", ":",
                 "0", "0", ":", "0", "0">>

UpperCase == <<"A", "B", "C", "D", "E", "F", "G", "H", "I", "J", "K", "L", "M", "N", "O", "P", "Q", "R", "S", "T", "U", "V", "W", "X", "Y", "Z">>

LowerCase == <<"a", "b", "c", "d", "e", "f", "g", "h", "i", "j", "k", "l", "m", "n", "o", "p", "q", "r", "s", "t", "u", "v", "w", "x", "y", "z">>

\* str.lower() on one character
LowerChar(c) ==
    IF \E i \in 1..Len(UpperCase) : UpperCase[i] = c
    THEN LowerCase[CHOOSE i \in 1..Len(UpperCase) : UpperCase[i] = c]
    ELSE c

\* str.lower()
Lower(t) == [i \in 1..Len(t) |-> LowerChar(t[i])]

\* q in t, on strings
In(q, t) == \E i \in 1..(Len(t) - Len(q) + 1) : SubSeq(t, i, i + Len(q) - 1) = q

\* the condition of search_tasks ignoring the tags
SearchMatches_NoTags(t, q) ==
    LET ql == Lower(Chars(q))
    IN  \/ In(ql, Lower(Chars(t.title)))
        \/ (~IsNone(t.description) /\ Chars(Val(t.description)) # <<>>
            /\ In(ql, Lower(Chars(Val(t.description)))))

\* the condition of search_tasks on the task t
SearchMatches(t, q) ==
    LET ql == Lower(Chars(q))
    IN  \/ In(ql, Lower(Chars(t.title)))
        \/ (~IsNone(t.description) /\ Chars(Val(t.description)) # <<>>
            /\ In(ql, Lower(Chars(Val(t.description)))))
        \/ \E i \in 1..Len(t.tags) : In(ql, Lower(Chars(t.tags[i])))

RECURSIVE SearchResults(_, _, _, _)
\* the loop of search_tasks over tasks.values(), from position i of the order
SearchResults(o, m, q, i) ==
    IF i > Len(o) THEN <<>>
    ELSE IF SearchMatches(m[o[i]], q)
         THEN <<m[o[i]]>> \o SearchResults(o, m, q, i + 1)
         ELSE SearchResults(o, m, q, i + 1)

Queries == {"", "MILK", "QUARTER", "Work", "cloud"}

\* get_tasks_by_status, get_tasks_by_priority: the keys of the tasks listed
TasksByStatus(m, st) == {k \in DOMAIN m : m[k].status = st}

TasksByPriority(m, p) == {k \in DOMAIN m : m[k].priority = p}

\* a float, as the fraction it stands for
Fraction(n, d) == [num |-> n, den |-> d]

\* get_task_statistics counting the tasks that are not pending as completed
Statistics_NotPending(m) ==
    LET total == Cardinality(DOMAIN m)
        completed == total - Cardinality(TasksByStatus(m, "PENDING"))
    IN  IF total = 0
        THEN [total |-> 0, completed |-> 0, pending |-> 0, completion_rate |-> Fraction(0, 1),
              by_priority |-> <<>>, by_status |-> <<>>]
        ELSE [total |-> total,
              completed |-> completed,
              pending |-> Cardinality(TasksByStatus(m, "PENDING")),
              completion_rate |-> Fraction(completed * 100, total),
              by_priority |-> [v \in {PriorityValue(p) : p \in PriorityMembers} |->
                                 Cardinality(TasksByPriority(m, Val(PriorityOf(v))))],
              by_status |-> [v \in {StatusValue(st) : st \in StatusMembers} |->
                               Cardinality(TasksByStatus(m, Val(StatusOf(v))))]]

\* get_task_statistics counting the tasks of one priority twice
Statistics_Overlap(m) ==
    LET total == Cardinality(DOMAIN m)
        completed == Cardinality(TasksByStatus(m, "COMPLETED"))
    IN  IF total = 0
        THEN [total |-> 0, completed |-> 0, pending |-> 0, completion_rate |-> Fraction(0, 1),
              by_priority |-> <<>>, by_status |-> <<>>]
        ELSE [total |-> total,
              completed |-> completed,
              pending |-> Cardinality(TasksByStatus(m, "PENDING")),
              completion_rate |-> Fraction(completed * 100, total),
              by_priority |-> [v \in {PriorityValue(p) : p \in PriorityMembers} |->
                                 Cardinality(TasksByPriority(m, Val(PriorityOf(v)))
                                             \cup TasksByPriority(m, "HIGH"))],
              by_status |-> [v \in {StatusValue(st) : st \in StatusMembers} |->
                               Cardinality(TasksByStatus(m, Val(StatusOf(v))))]]

\* get_task_statistics on the mapping m
Statistics(m) ==
    LET total == Cardinality(DOMAIN m)
        completed == Cardinality(TasksByStatus(m, "COMPLETED"))
    IN  IF total = 0
        THEN [total |-> 0, completed |-> 0, pending |-> 0, completion_rate |-> Fraction(0, 1),
              by_priority |-> <<>>, by_status |-> <<>>]
        ELSE [total |-> total,
              completed |-> completed,
              pending |-> Cardinality(TasksByStatus(m, "PENDING")),
              completion_rate |-> Fraction(completed * 100, total),
              by_priority |-> [v \in {PriorityValue(p) : p \in PriorityMembers} |->
                                 Cardinality(TasksByPriority(m, Val(PriorityOf(v))))],
              by_status |-> [v \in {StatusValue(st) : st \in StatusMembers} |->
                               Cardinality(TasksByStatus(m, Val(StatusOf(v))))]]

\* a call that reads and changes nothing.  The query of a session comes
\* after its other calls: a query changes no state, so one placed earlier
\* or repeated returns what this one returns in the same store.
Query ==
    /\ steps = limit
    /\ ret.op \notin {"statistics", "search"}
    /\ prev' = Snapshot
    /\ UNCHANGED <<tasks, order, disk, remote, client, now, handed, addsOnly, everDone,
                   steps, limit, fs, peer, outage>>

GetTaskStatistics ==
    /\ Query
    /\ ret' = Ret("statistics", None, None, Statistics(tasks), "", 0)

SearchTasks(q) ==
    /\ Query
    /\ ret' = Ret("search", None, q, SearchResults(order, tasks, q, 1), "", 0)

\* TaskManager(db_path) on the document as it is: a new process
Restart ==
    /\ Call
    /\ tasks' = LoadedTasks(disk, now)
    /\ order' = LoadedOrder(disk)
    /\ ret' = Ret("init", None, None, None, "", 0)
    /\ handed' = <<>>
    /\ addsOnly' = FALSE
    /\ everDone' = everDone \cap DOMAIN tasks'
    /\ UNCHANGED <<disk, remote, client, now>>

\* the documents another program may leave at db_path: none, a cut one,
\* or one with the entries of a batch
EditedDocuments == {None, Some(Torn)} \cup {Some(b) : b \in ImportBatches}

\* the document is removed or rewritten by another program
EditDocument(d) ==
    /\ Call
    /\ disk' = d
    /\ ret' = Ret("edit_document", None, d, None, "", 0)
    /\ UNCHANGED <<tasks, order, remote, client, now, handed, addsOnly, everDone>>

\* the tasks a program can hold: Task(...) with every priority and status,
\* with and without description, completed_at, due_date and tags
TaskValues ==
    {PostInit([id |-> DecStr(1), title |-> "Write report", description |-> de,
               priority |-> p, status |-> st, created_at |-> Some(1), updated_at |-> up,
               completed_at |-> co, tags |-> tg, due_date |-> du], 1) :
        p \in PriorityMembers, st \in StatusMembers,
        de \in {None, Some("quarterly")}, up \in {None, Some(2)},
        co \in {None, Some(2)}, tg \in {<<>>, <<"work", "cloud">>},
        du \in {None, Some("2024-01-01T00:00:00")}}

\* Task.from_dict(t.to_dict())
RoundTrip(t) ==
    /\ Call
    /\ ret' = Ret("round_trip", None, t,
                  [dict |-> ToDict(t), back |-> FromDict(ToDict(t), now)], "", 0)
    /\ UNCHANGED <<tasks, order, disk, remote, client, now, handed, addsOnly, everDone>>

\* the file system changes under the program
DiskFault(f) ==
    /\ steps < limit
    /\ f # fs
    /\ fs' = f
    /\ steps' = steps + 1
    /\ prev' = Snapshot
    /\ ret' = Ret("disk_fault", None, f, None, "", 0)
    /\ UNCHANGED <<tasks, order, disk, remote, client, now, handed, addsOnly, everDone, limit,
                   peer, outage>>

----------------------------------------------------------------------------
(* Two TaskManager instances, in two processes, on one document.  A write  *)
(* of the document is open(db_path, 'w'), which empties the file, and the  *)
(* flush at the end of the with block, which puts the text at offset 0;    *)
(* the other process can run between the two.                              *)

\* the length of datetime.now(timezone.utc).isoformat()
StampLen == 32

\* the length of json.dump(..., indent=2) of a string, of an optional
\* value, of the list of tags
StrLen(x) == Len(Chars(x)) + 2

OptLen(o, n) == IF IsNone(o) THEN 4 ELSE n

RECURSIVE TagsLen(_, _)
TagsLen(tg, i) ==
    IF tg = <<>> THEN 2
    ELSE IF i > Len(tg) THEN 8
    ELSE 6 + StrLen(tg[i]) + (IF i < Len(tg) THEN 2 ELSE 0) + TagsLen(tg, i + 1)

\* the length of the text of one dictionary of the document
TaskLen(d) ==
    180 + (Len(d.id) + 2) + StrLen(d.title)
        + OptLen(d.description, IF IsNone(d.description) THEN 0 ELSE StrLen(Val(d.description)))
        + StrLen(d.priority) + StrLen(d.status)
        + OptLen(d.created_at, StampLen + 2) + OptLen(d.updated_at, StampLen + 2)
        + OptLen(d.completed_at, StampLen + 2)
        + TagsLen(d.tags, 1)
        + OptLen(d.due_date, IF IsNone(d.due_date) THEN 0 ELSE StrLen(Val(d.due_date)))

RECURSIVE EntriesLen(_, _)
EntriesLen(doc, i) ==
    IF i > Len(doc.order) THEN 0
    ELSE (Len(doc.order[i]) + 6) + TaskLen(doc.map[doc.order[i]])
         + (IF i < Len(doc.order) THEN 2 ELSE 0) + EntriesLen(doc, i + 1)

\* the length of the text of the document
DocLen(doc) == IF doc.order = <<>> THEN 2 ELSE 4 + EntriesLen(doc, 1)

\* a file of n characters that is no document: emptied, or the text of one
\* write followed by the rest of a longer one
Mixed(n) == [order |-> <<>>, map |-> EmptyMap, cut |-> TRUE, len |-> n]

FileLen(d) ==
    IF IsNone(d) THEN 0
    ELSE IF "len" \in DOMAIN Val(d) THEN Val(d).len
    ELSE DocLen(Val(d))

\* the file after the text of doc is put at offset 0 of it
Overwritten(d, doc) ==
    IF FileLen(d) > DocLen(doc) THEN Some(Mixed(FileLen(d))) ELSE Some(doc)

\* one more step of one of the two processes
PeerStep ==
    /\ steps < limit
    /\ steps' = steps + 1
    /\ prev' = Snapshot
    /\ UNCHANGED <<limit, fs, remote, client, outage>>

\* add_task up to the open of _save_tasks
BeginAdd(a) ==
    /\ PeerStep
    /\ IsNone(peer.writing)
    /\ \E c \in Readings(now) :
         LET id == NextId(tasks)
             t == NewTask(id, a, c)
         IN  /\ tasks' = Put(tasks, id, t)
             /\ order' = PutOrder(order, id)
             /\ now' = c
             /\ ret' = Ret("add_begun", id, a, None, "", 0)
    /\ disk' = Some(Mixed(0))
    /\ peer' = [peer EXCEPT !.writing = Some(Export(order', tasks'))]
    /\ everDone' = everDone \ {NextId(tasks)}
    /\ UNCHANGED <<handed, addsOnly>>

\* delete_task of a stored id up to the open of _save_tasks
BeginDelete(k) ==
    /\ PeerStep
    /\ IsNone(peer.writing)
    /\ k \in DOMAIN tasks
    /\ tasks' = Del(tasks, k)
    /\ order' = Without(order, k)
    /\ disk' = Some(Mixed(0))
    /\ peer' = [peer EXCEPT !.writing = Some(Export(order', tasks'))]
    /\ ret' = Ret("delete_begun", k, None, None, "", 0)
    /\ everDone' = everDone \ {k}
    /\ addsOnly' = FALSE
    /\ UNCHANGED <<now, handed>>

\* the with block of _save_tasks ends: the text goes to the file and the
\* operation returns
FinishSave ==
    /\ PeerStep
    /\ ~IsNone(peer.writing)
    /\ disk' = Overwritten(disk, Val(peer.writing))
    /\ peer' = [peer EXCEPT !.writing = None]
    /\ ret' = Ret("written", None, Val(peer.writing), None, "", 1)
    /\ UNCHANGED <<tasks, order, now, handed, addsOnly, everDone>>

\* the same in the other process
FinishPeerSave ==
    /\ PeerStep
    /\ ~IsNone(peer.pending)
    /\ disk' = Overwritten(disk, Val(peer.pending))
    /\ peer' = [peer EXCEPT !.pending = None]
    /\ ret' = Ret("peer_written", None, Val(peer.pending), None, "", 1)
    /\ UNCHANGED <<tasks, order, now, handed, addsOnly, everDone>>

\* the other process runs from here on: tasks and order become those of its
\* TaskManager, which it builds on the document if it has none yet
SwitchInstance ==
    /\ PeerStep
    /\ tasks' = IF peer.opened THEN peer.tasks ELSE LoadedTasks(disk, now)
    /\ order' = IF peer.opened THEN peer.order ELSE LoadedOrder(disk)
    /\ peer' = [opened |-> TRUE, tasks |-> tasks, order |-> order,
                pending |-> peer.writing, writing |-> peer.pending]
    /\ ret' = Ret("switch", None, None, None, "", 0)
    /\ handed' = <<>>
    /\ addsOnly' = FALSE
    /\ everDone' = {}
    /\ UNCHANGED <<disk, now>>

----------------------------------------------------------------------------
(* MongoDBCloudSync operations.  A remote call (ping, update_one, find,    *)
(* delete_one) either answers or raises; f says which call of the          *)
(* operation raises, if any.                                               *)

EmptyBatch == [order |-> <<>>, map |-> EmptyMap]

Outcome(coll, res, raised) == [coll |-> coll, res |-> res, raised |-> raised, cause |-> None]

\* except Exception as e: the remote call's failure passed on as it is
Unwrapped(coll, f) ==
    [coll |-> coll, res |-> None, raised |-> "PyMongoError", cause |-> None]

\* except Exception as e: raise CloudSyncError(f"...: {e}")
Wrapped(coll, f) ==
    [coll |-> coll, res |-> None, raised |-> "CloudSyncError", cause |-> Some(f)]

\* is_connected: client is not None and client.admin.command('ping');
\* the ping answers with a truthy document or raises
IsConnected(cl, f) ==
    IF cl # "connected" THEN Outcome(<<>>, FALSE, "")
    ELSE IF f.at = "ping" THEN Outcome(<<>>, None, "ServerSelectionTimeoutError")
    ELSE Outcome(<<>>, TRUE, "")

\* sync_tasks_to_cloud(b, u)
PushOutcome(cl, coll, b, u, f, clock) ==
    LET conn == IsConnected(cl, f)
    IN  IF conn.raised # "" THEN Outcome(coll, None, conn.raised)
        ELSE IF conn.res = FALSE THEN Outcome(coll, FALSE, "")
        ELSE IF f.at = "update_one"
             THEN Wrapped(UpsertFirst(coll, b, u, f.i - 1, clock), f)
        ELSE Outcome(UpsertFirst(coll, b, u, Len(b.order), clock), TRUE, "")

\* sync_tasks_from_cloud(u)
PullOutcome(cl, coll, u, f) ==
    LET conn == IsConnected(cl, f)
    IN  IF conn.raised # "" THEN Outcome(coll, None, conn.raised)
        ELSE IF conn.res = FALSE THEN Outcome(coll, EmptyBatch, "")
        ELSE IF f.at = "find" THEN Wrapped(coll, f)
        ELSE Outcome(coll, PulledTasks(coll, u), "")

\* delete_task_from_cloud(k, u)
DeleteOutcome(cl, coll, k, u, f) ==
    LET conn == IsConnected(cl, f)
    IN  IF conn.raised # "" THEN Outcome(coll, None, conn.raised)
        ELSE IF conn.res = FALSE THEN Outcome(coll, FALSE, "")
        ELSE IF f.at = "delete_one" THEN Wrapped(coll, f)
        ELSE Outcome(DeleteFirst(coll, k, u), HasRecord(coll, k, u), "")

\* get_cloud_health: the connectivity check, then ping, dbStats and
\* collection.stats() inside the try
HealthFailures ==
    {NoFailure, Failure("ping", 0), Failure("health_ping", 0), Failure("dbStats", 0),
     Failure("stats", 0)}

HealthOutcome(cl, f) ==
    LET conn == IsConnected(cl, f)
    IN  IF conn.raised # "" THEN Outcome(<<>>, None, conn.raised)
        ELSE IF conn.res = FALSE THEN Outcome(<<>>, [status |-> "disconnected"], "")
        ELSE IF f.at \in {"health_ping", "dbStats", "stats"}
             THEN Outcome(<<>>, [status |-> "error"], "")
        ELSE Outcome(<<>>, [status |-> "connected"], "")

GetCloudHealth(f) ==
    /\ Call
    /\ client # "connected" => f = NoFailure
    /\ LET out == HealthOutcome(client, f)
       IN  ret' = Ret("health", None, f, out.res, out.raised, 0)
    /\ UNCHANGED <<tasks, order, disk, remote, client, now, handed, addsOnly, everDone>>

PushFailures(n) ==
    {NoFailure, Failure("ping", 0)} \cup {Failure("update_one", i) : i \in 1..n}

PushAll(u, f) ==
    /\ Call
    /\ client # "connected" => f = NoFailure
    /\ f \in PushFailures(Len(order))
    /\ \E c \in Readings(now) :
         LET out == PushOutcome(client, remote, Export(order, tasks), u, f, c)
         IN  /\ remote' = out.coll
             /\ now' = c
             /\ ret' = [Ret("push", u, f, out.res, out.raised, 0) EXCEPT !.cause = out.cause]
    /\ UNCHANGED <<tasks, order, disk, client, handed, addsOnly, everDone>>

PullAll(u, f) ==
    /\ Call
    /\ client # "connected" => f = NoFailure
    /\ f \in {NoFailure, Failure("ping", 0), Failure("find", 0)}
    /\ LET out == PullOutcome(client, remote, u, f)
       IN  /\ remote' = out.coll
           /\ ret' = [Ret("pull", u, f, out.res, out.raised, 0) EXCEPT !.cause = out.cause]
    /\ UNCHANGED <<tasks, order, disk, client, now, handed, addsOnly, everDone>>

DeleteOne(k, u, f) ==
    /\ Call
    /\ client # "connected" => f = NoFailure
    /\ f \in {NoFailure, Failure("ping", 0), Failure("delete_one", 0)}
    /\ LET out == DeleteOutcome(client, remote, k, u, f)
       IN  /\ remote' = out.coll
           /\ ret' = [Ret("delete_one", <<k, u>>, f, out.res, out.raised, 0)
                       EXCEPT !.cause = out.cause]
    /\ UNCHANGED <<tasks, order, disk, client, now, handed, addsOnly, everDone>>

\* another client of the collection upserts a record
ForeignWrite(k, u, d) ==
    /\ Call
    /\ remote' = Upsert(remote, CloudTask(k, u, d, now))
    /\ ret' = Ret("foreign_write", <<k, u>>, d, None, "", 0)
    /\ UNCHANGED <<tasks, order, disk, client, now, handed, addsOnly, everDone>>

----------------------------------------------------------------------------
(* TaskCLI.sync_with_cloud(direction), as the user CliUser *)

SyncFailures(dir, n) ==
    {NoFailure, Failure("cli_ping", 0)}
    \cup (IF dir \in {"up", "both"}
          THEN {Failure("push_ping", 0)} \cup {Failure("update_one", i) : i \in 1..n}
          ELSE {})
    \cup (IF dir \in {"down", "both"}
          THEN {Failure("pull_ping", 0), Failure("find", 0)}
          ELSE {})

\* the failure, as the call that meets it sees it
Seen(f, ping, call) ==
    IF f.at = ping THEN Failure("ping", 0)
    ELSE IF f.at = call THEN f
    ELSE NoFailure

\* a slip: direction "both" taken as "up"
PullRuns_DownOnly(dir, pushRaised) == dir = "down" /\ ~pushRaised

\* whether control reaches the second if of sync_with_cloud and enters it:
\* one try block holds both halves, so an exception in the first leaves it
PullRuns(dir, pushRaised) == dir \in {"down", "both"} /\ ~pushRaised

Status(ran, raised) == IF ~ran THEN "not_run" ELSE IF raised THEN "failed" ELSE "ok"

SyncWithCloud(dir, f) ==
    /\ Call
    /\ client # "connected" => f = NoFailure
    /\ f \in SyncFailures(dir, Len(order))
    /\ LET conn == IsConnected(client, Seen(f, "cli_ping", ""))
           entered == conn.raised = "" /\ conn.res = TRUE
           doPush == entered /\ dir \in {"up", "both"}
       IN  \E c1 \in (IF doPush THEN Readings(now) ELSE {now}) :
           LET push == PushOutcome(client, remote, Export(order, tasks), CliUser,
                                   Seen(f, "push_ping", "update_one"), c1)
               pushRaised == doPush /\ push.raised # ""
               coll == IF doPush THEN push.coll ELSE remote
               doPull == entered /\ PullRuns(dir, pushRaised)
               pull == PullOutcome(client, coll, CliUser, Seen(f, "pull_ping", "find"))
               pullRaised == doPull /\ pull.raised # ""
               doImport == doPull /\ ~pullRaised /\ pull.res.order # <<>>
               caught == IF conn.raised # "" THEN conn.raised
                         ELSE IF pushRaised THEN push.raised
                         ELSE IF pullRaised THEN pull.raised
                         ELSE IF doImport
                              THEN SaveTasks(fs, disk, order', tasks').raised
                         ELSE ""
           IN  \E c2 \in (IF doImport THEN Readings(c1) ELSE {c1}) :
                 /\ remote' = coll
                 /\ tasks' = IF doImport THEN ImportedMap(tasks, pull.res, 1, c2) ELSE tasks
                 /\ order' = IF doImport THEN ImportedOrder(order, pull.res, 1) ELSE order
                 /\ disk' = IF doImport THEN SaveTasks(fs, disk, order', tasks').disk
                            ELSE disk
                 /\ everDone' = IF doImport THEN DoneAfterImport(everDone, pull.res)
                                ELSE everDone
                 /\ addsOnly' = (addsOnly /\ ~doImport)
                 /\ now' = c2
                 /\ ret' = Ret("sync", None, <<dir, f>>,
                               [connected |-> entered,
                                push |-> Status(doPush, pushRaised),
                                pull |-> Status(doPull, pullRaised),
                                imported |-> IF doImport THEN Some(pull.res) ELSE None,
                                caught |-> caught],
                               "", IF doImport THEN 1 ELSE 0)
    /\ UNCHANGED <<client, handed>>

----------------------------------------------------------------------------
(* TaskCLI: the commands *)

MaxCliSteps == 3

MaxOwnSteps == 3

\* utils.validate_priority, utils.validate_status
ValidatePriority(p) == Lower(Chars(p)) \in {Chars("low"), Chars("medium"), Chars("high")}

ValidateStatus(v) ==
    Lower(Chars(v)) \in {Chars("pending"), Chars("in_progress"), Chars("completed"),
                         Chars("cancelled")}

\* utils.parse_date on the dates of the model: the first format matches
\* "2024-01-01", no format matches "tomorrow"
ParseDate(d) ==
    CASE d = "2024-01-01" -> Some("2024-01-01T00:00:00")
      [] OTHER -> None

\* the arguments of the add command; "urgent" and "HIGH" are not choices of
\* the parser, add_task can be called with them
CliAddArgs ==
    { [title |-> "Buy milk", description |-> None, priority |-> "medium",
       tags |-> None, due_date |-> None],
      [title |-> "Write report", description |-> Some("quarterly"), priority |-> "high",
       tags |-> Some(<<"work">>), due_date |-> Some("2024-01-01")],
      [title |-> "Buy milk", description |-> None, priority |-> "urgent",
       tags |-> None, due_date |-> None],
      [title |-> "Buy milk", description |-> None, priority |-> "HIGH",
       tags |-> None, due_date |-> None] }

\* the arguments TaskCLI.add_task passes to TaskManager.add_task
ManagerAddArgs(a) ==
    [title |-> a.title,
     description |-> a.description,
     priority |-> PriorityOf(a.priority),
     tags |-> IF IsNone(a.tags) THEN <<>> ELSE Val(a.tags),
     due_date |-> IF IsNone(a.due_date) THEN None ELSE ParseDate(Val(a.due_date))]

\* the keyword arguments of the update command
CliUpdateArgs ==
    { [NoArgs EXCEPT !.status = Some("in_progress")],
      [NoArgs EXCEPT !.status = Some("completed")],
      [NoArgs EXCEPT !.title = Some("Renamed"), !.priority = Some("low"),
                     !.due_date = Some("2024-01-01")],
      [NoArgs EXCEPT !.due_date = Some("tomorrow")] }

\* the validation of TaskCLI.update_task
UpdateRejected(a) ==
    \/ ~IsNone(a.priority) /\ ~ValidatePriority(Val(a.priority))
    \/ ~IsNone(a.status) /\ ~ValidateStatus(Val(a.status))
    \/ ~IsNone(a.due_date) /\ IsNone(ParseDate(Val(a.due_date)))

\* the keyword arguments TaskCLI.update_task passes on
ManagerUpdateArgs(a) ==
    [a EXCEPT !.priority = IF IsNone(a.priority) THEN None ELSE PriorityOf(Val(a.priority)),
              !.status = IF IsNone(a.status) THEN None ELSE StatusOf(Val(a.status)),
              !.due_date = IF IsNone(a.due_date) THEN None ELSE ParseDate(Val(a.due_date))]

\* one more command; a session is followed up to the command at which a
\* remote call first raises
Command ==
    /\ steps < limit
    /\ ~outage
    /\ steps' = steps + 1
    /\ prev' = Snapshot
    /\ UNCHANGED <<limit, fs, peer, client>>

\* a command that returns before it reaches the store
Refused(op, k, a, why) ==
    /\ ret' = Ret(op, k, a, [refused |-> why], "", 0)
    /\ UNCHANGED <<tasks, order, disk, remote, now, handed, addsOnly, everDone, outage>>

CliFailures(n) == SyncFailures("up", n)

\* the end of add_task, complete_task and update_task: when the store has
\* returned and is_connected() holds, sync_tasks_to_cloud(export_tasks())
PushAfter(op, k, a, t, raised, f, c) ==
    LET conn == IsConnected(client, Seen(f, "cli_ping", ""))
        doPush == raised = "" /\ conn.raised = "" /\ conn.res = TRUE
    IN  \E c2 \in (IF doPush THEN Readings(c) ELSE {c}) :
          LET push == PushOutcome(client, remote, Export(order', tasks'), CliUser,
                                  Seen(f, "push_ping", "update_one"), c2)
              pushRaised == doPush /\ push.raised # ""
          IN  /\ remote' = IF doPush THEN push.coll ELSE remote
              /\ now' = c2
              /\ outage' = (outage \/ (raised = "" /\ conn.raised # "") \/ pushRaised)
              /\ ret' = Ret(op, k, a,
                            [task |-> t, caught |-> raised,
                             push |-> Status(doPush, pushRaised)], "", 1)

\* TaskCLI.add_task
CliAdd(a, f) ==
    /\ Command
    /\ client # "connected" => f = NoFailure
    /\ IF ~ValidatePriority(a.priority)
       THEN f = NoFailure /\ Refused("cli_add", None, a, "invalid_priority")
       ELSE IF IsNone(PriorityOf(a.priority))
       THEN f = NoFailure /\ Refused("cli_add", None, a, "ValueError")
       ELSE /\ f \in CliFailures(Len(PutOrder(order, NextId(tasks))))
            /\ \E c \in Readings(now) :
                 LET id == NextId(tasks)
                     t == NewTask(id, ManagerAddArgs(a), c)
                     w == SaveTasks(fs, disk, order', tasks')
                 IN  /\ tasks' = Put(tasks, id, t)
                     /\ order' = PutOrder(order, id)
                     /\ disk' = w.disk
                     /\ handed' = IF w.raised = "" THEN Append(handed, id) ELSE handed
                     /\ everDone' = everDone \ {id}
                     /\ addsOnly' = addsOnly
                     /\ PushAfter("cli_add", id, a, Some(t), w.raised, f, c)

\* the common part of TaskCLI.update_task and TaskCLI.complete_task, a the
\* keyword arguments for TaskManager.update_task
CliUpdateCall(op, k, a, f) ==
    IF k \notin DOMAIN tasks
    THEN f = NoFailure /\ Refused(op, k, a, "not_found")
    ELSE /\ f \in CliFailures(Len(order))
         /\ \E c1 \in (IF a.status = Some("COMPLETED") /\ IsNone(tasks[k].completed_at)
                       THEN Readings(now) ELSE {now}) :
            \E c2 \in Readings(c1) :
              LET t == UpdatedTask(tasks[k], a, c1, c2)
                  w == SaveTasks(fs, disk, order', tasks')
              IN  /\ tasks' = [tasks EXCEPT ![k] = t]
                  /\ order' = order
                  /\ disk' = w.disk
                  /\ everDone' = IF a.status = Some("COMPLETED")
                                 THEN everDone \cup {k} ELSE everDone
                  /\ UNCHANGED <<handed, addsOnly>>
                  /\ PushAfter(op, k, a, Some(t), w.raised, f, c2)

\* TaskCLI.update_task
CliUpdate(k, a, f) ==
    /\ Command
    /\ client # "connected" => f = NoFailure
    /\ IF UpdateRejected(a)
       THEN f = NoFailure /\ Refused("cli_update", k, a, "invalid")
       ELSE CliUpdateCall("cli_update", k, ManagerUpdateArgs(a), f)

\* TaskCLI.complete_task
CliComplete(k, f) ==
    /\ Command
    /\ client # "connected" => f = NoFailure
    /\ CliUpdateCall("cli_complete", k, CompleteArgs, f)

CliDeleteFailures ==
    {NoFailure, Failure("cli_ping", 0), Failure("delete_ping", 0), Failure("delete_one", 0)}

\* TaskCLI.delete_task; yes is the answer to confirm_action
CliDelete(k, yes, f) ==
    /\ Command
    /\ client # "connected" => f = NoFailure
    /\ f \in CliDeleteFailures
    /\ IF ~yes
       THEN f = NoFailure /\ Refused("cli_delete", k, None, "declined")
       ELSE IF k \notin DOMAIN tasks
       THEN /\ f = NoFailure
            /\ ret' = Ret("cli_delete", k, None, [refused |-> "not_found"], "", 0)
            /\ everDone' = everDone \ {k}
            /\ addsOnly' = FALSE
            /\ UNCHANGED <<tasks, order, disk, remote, now, handed, outage>>
       ELSE LET w == SaveTasks(fs, disk, order', tasks')
                conn == IsConnected(client, Seen(f, "cli_ping", ""))
                doDelete == w.raised = "" /\ conn.raised = "" /\ conn.res = TRUE
                del == DeleteOutcome(client, remote, k, CliUser,
                                     Seen(f, "delete_ping", "delete_one"))
                delRaised == doDelete /\ del.raised # ""
            IN  /\ tasks' = Del(tasks, k)
                /\ order' = Without(order, k)
                /\ disk' = w.disk
                /\ remote' = IF doDelete THEN del.coll ELSE remote
                /\ outage' = (outage \/ (w.raised = "" /\ conn.raised # "") \/ delRaised)
                /\ ret' = Ret("cli_delete", k, None,
                              [task |-> None, caught |-> w.raised,
                               push |-> Status(doDelete, delRaised)], "", 1)
                /\ everDone' = everDone \ {k}
                /\ addsOnly' = FALSE
                /\ UNCHANGED <<now, handed>>

----------------------------------------------------------------------------
(* Specifications *)

\* the task store alone
Next ==
    \/ \E a \in AddArgs : AddTask(a)
    \/ \E k \in Keys, a \in UpdateArgs : UpdateTask(k, a)
    \/ \E k \in Keys : CompleteTask(k)
    \/ \E k \in Keys : DeleteTask(k)
    \/ \E b \in ImportBatches : ImportTasks(b)

Init == InitFor(MaxSteps) /\ client = "unconfigured"

Spec == Init /\ [][Next]_vars

\* a run of add_task calls on the empty store
NextAdds == \E a \in AddArgs : AddTask(a)

InitAdds == InitFor(MaxAdds) /\ client = "unconfigured"

SpecAdds == InitAdds /\ [][NextAdds]_vars

\* the task store, the sync engine and the sync command
NextSync ==
    \/ \E a \in AddArgs : AddTask(a)
    \/ \E k \in Keys : CompleteTask(k)
    \/ \E k \in Keys : DeleteTask(k)
    \/ \E u \in Users, f \in PushFailures(Len(order)) : PushAll(u, f)
    \/ \E u \in Users, f \in {NoFailure, Failure("ping", 0), Failure("find", 0)} : PullAll(u, f)
    \/ \E k \in Keys, u \in Users,
          f \in {NoFailure, Failure("ping", 0), Failure("delete_one", 0)} : DeleteOne(k, u, f)
    \/ \E d \in Directions : \E f \in SyncFailures(d, Len(order)) : SyncWithCloud(d, f)
    \/ \E w \in ForeignWrites : ForeignWrite(w[1], w[2], w[3])


InitSync == InitFor(MaxSyncSteps)

SpecSync == InitSync /\ [][NextSync]_vars

\* the task store and its queries
NextQueries ==
    \/ \E a \in AddArgs : AddTask(a)
    \/ \E k \in Keys : CompleteTask(k)
    \/ \E k \in Keys : DeleteTask(k)
    \/ \E b \in QueryBatches : ImportTasks(b)
    \/ GetTaskStatistics
    \/ \E q \in Queries : SearchTasks(q)

InitQueries == \E n \in 0..MaxQuerySteps : InitFor(n) /\ client = "unconfigured"

SpecQueries == InitQueries /\ [][NextQueries]_vars

\* the task store on a file system that can refuse a write, over restarts
NextDisk ==
    \/ \E a \in AddArgs : AddTask(a)
    \/ \E k \in Keys, a \in UpdateArgs : UpdateTask(k, a)
    \/ \E k \in Keys : CompleteTask(k)
    \/ \E k \in Keys : DeleteTask(k)
    \/ \E b \in ImportBatches : ImportTasks(b)
    \/ Restart
    \/ \E f \in FileSystems : DiskFault(f)

InitDisk == InitFor(MaxDiskSteps) /\ client = "unconfigured"

SpecDisk == InitDisk /\ [][NextDisk]_vars

\* the sync engine and its health check
NextHealth ==
    \/ \E a \in AddArgs : AddTask(a)
    \/ \E u \in Users, f \in PushFailures(Len(order)) : PushAll(u, f)
    \/ \E u \in Users, f \in {NoFailure, Failure("ping", 0), Failure("find", 0)} : PullAll(u, f)
    \/ \E f \in HealthFailures : GetCloudHealth(f)

InitHealth == InitFor(MaxHealthSteps)

SpecHealth == InitHealth /\ [][NextHealth]_vars

\* the task store on a document other programs rewrite, over restarts
NextLoad ==
    \/ \E a \in AddArgs : AddTask(a)
    \/ \E k \in Keys : CompleteTask(k)
    \/ \E d \in EditedDocuments : EditDocument(d)
    \/ Restart

InitLoad == InitFor(MaxLoadSteps) /\ client = "unconfigured"

SpecLoad == InitLoad /\ [][NextLoad]_vars

\* two processes on one document
NextPeers ==
    \/ \E a \in AddArgs : BeginAdd(a)
    \/ \E k \in Keys : BeginDelete(k)
    \/ FinishSave
    \/ FinishPeerSave
    \/ SwitchInstance

InitPeers == InitFor(MaxPeerSteps) /\ client = "unconfigured"

SpecPeers == InitPeers /\ [][NextPeers]_vars

\* to_dict and from_dict on every task
NextRoundTrip == \E t \in TaskValues : RoundTrip(t)

InitRoundTrip == InitFor(MaxRoundTrips) /\ client = "unconfigured"

SpecRoundTrip == InitRoundTrip /\ [][NextRoundTrip]_vars

\* the commands of TaskCLI in one session
NextCli ==
    \/ \E a \in CliAddArgs : \E f \in CliFailures(Len(order) + 1) : CliAdd(a, f)
    \/ \E k \in Keys, a \in CliUpdateArgs : \E f \in CliFailures(Len(order)) : CliUpdate(k, a, f)
    \/ \E k \in Keys : \E f \in CliFailures(Len(order)) : CliComplete(k, f)
    \/ \E k \in Keys, yes \in BOOLEAN, f \in CliDeleteFailures : CliDelete(k, yes, f)

InitCli == InitFor(MaxCliSteps) /\ client \in {"unconfigured", "connected"}

SpecCli == InitCli /\ [][NextCli]_vars

\* the store and the collection with no other writer
NextOwn ==
    \/ \E a \in AddArgs : AddTask(a)
    \/ \E k \in Keys, a \in {x \in UpdateArgs : IsNone(x.status)} : UpdateTask(k, a)
    \/ \E k \in Keys : CompleteTask(k)
    \/ \E k \in Keys : DeleteTask(k)
    \/ \E u \in Users, f \in {x \in PushFailures(Len(order)) : x.at # "ping"} : PushAll(u, f)
    \/ PullAll(CliUser, NoFailure)
    \/ \E d \in {"down", "both"} : SyncWithCloud(d, NoFailure)

InitOwn == InitFor(MaxOwnSteps) /\ client = "connected"

SpecOwn == InitOwn /\ [][NextOwn]_vars



----------------------------------------------------------------------------
(* Vocabulary of the claims *)

WasUpdate == ret.op \in {"update", "complete"}

WasImport == ret.op = "import"

WasSync(dir) == ret.op = "sync" /\ ret.arg[1] = dir

RECURSIVE NumOf(_)
\* the number a tuple of decimal digits writes
NumOf(s) == IF Len(s) = 0 THEN 0 ELSE 10 * NumOf(SubSeq(s, 1, Len(s) - 1)) + s[Len(s)]

\* s is the decimal text of n, without leading zeros
IsDecimalOf(s, n) ==
    /\ Len(s) >= 1
    /\ \A i \in 1..Len(s) : s[i] \in 0..9
    /\ Len(s) > 1 => s[1] # 0
    /\ NumOf(s) = n

\* the task t holds the values of the dictionary d in every field; a
\* timestamp d leaves out is the reading of the clock at the import, and
\* nothing else can differ
HoldsData(t, d, clock) ==
    /\ t.id = d.id
    /\ t.title = d.title
    /\ t.description = d.description
    /\ PriorityValue(t.priority) = d.priority
    /\ StatusValue(t.status) = d.status
    /\ t.completed_at = d.completed_at
    /\ t.tags = d.tags
    /\ t.due_date = d.due_date
    /\ t.created_at = (IF IsNone(d.created_at) THEN Some(clock) ELSE d.created_at)
    /\ t.updated_at = (IF IsNone(d.updated_at) THEN t.created_at ELSE d.updated_at)

ValidValues(d) ==
    /\ d.priority \in {"low", "medium", "high"}
    /\ d.status \in {"pending", "in_progress", "completed", "cancelled"}

----------------------------------------------------------------------------
(* C1: no id returned by add_task is returned by a later add_task of the   *)
(* same session, deletes included.                                         *)
(* The code assigns str(len(tasks) + 1): add, delete("1"), add returns     *)
(* "1" twice.                                                              *)
C1_IdsNeverReused ==
    \A i, j \in 1..Len(handed) : i # j => handed[i] # handed[j]

(* C2: on a store that started empty and has seen no delete and no import, *)
(* the i-th add_task returned the decimal text of i, the ids are pairwise  *)
(* distinct and the store holds exactly these ids.                         *)
C2_SequentialIds ==
    addsOnly =>
        /\ \A i \in 1..Len(handed) : IsDecimalOf(handed[i], i)
        /\ \A i, j \in 1..Len(handed) : i # j => handed[i] # handed[j]
        /\ DOMAIN tasks = Range(handed)
        /\ Cardinality(DOMAIN tasks) = Len(handed)
        /\ \A k \in DOMAIN tasks : tasks[k].id = k
        /\ ret.op = "add" => ret.key = handed[Len(handed)]

C2_Witness ==
    /\ addsOnly
    /\ ret.op = "add"
    /\ Len(handed) = 10
    /\ ret.key = <<1, 0>>
    /\ Cardinality(DOMAIN tasks) = 10

(* C3: update_task / complete_task on a task whose completed_at is set     *)
(* leaves completed_at as it was, whatever the status before and after;    *)
(* on a task whose completed_at is unset it sets completed_at (to a clock  *)
(* reading of the call) exactly when the status is set to COMPLETED.       *)
C3_CompletedAtSetOnce ==
    (WasUpdate /\ ret.key \in DOMAIN prev.tasks) =>
        LET old == prev.tasks[ret.key]
            new == tasks[ret.key]
        IN  /\ ~IsNone(old.completed_at) => new.completed_at = old.completed_at
            /\ (IsNone(old.completed_at) /\ ret.arg.status = Some("COMPLETED")) =>
                   /\ ~IsNone(new.completed_at)
                   /\ Val(new.completed_at) \in prev.now..now
            /\ (IsNone(old.completed_at) /\ ret.arg.status # Some("COMPLETED")) =>
                   IsNone(new.completed_at)

\* complete on a task completed earlier and moved to IN_PROGRESS since
C3_Witness ==
    /\ ret.op = "complete"
    /\ ret.key \in DOMAIN prev.tasks
    /\ prev.tasks[ret.key].status = "IN_PROGRESS"
    /\ ~IsNone(prev.tasks[ret.key].completed_at)
    /\ Val(prev.tasks[ret.key].completed_at) < now
    /\ tasks[ret.key].status = "COMPLETED"

(* C4: every stored task has completed_at set if and only if its status    *)
(* has at some point been COMPLETED.                                       *)
(* import_tasks stores whatever it is given: the second task of            *)
(* test_import_tasks has status completed and no completed_at.             *)
C4_CompletedAtIffEverCompleted ==
    \A k \in DOMAIN tasks : ~IsNone(tasks[k].completed_at) <=> k \in everDone

(* C5: every stored task has updated_at >= created_at.                     *)
(* import_tasks stores the timestamps it is given, in any order.           *)
C5_UpdatedNotBeforeCreated ==
    \A k \in DOMAIN tasks : Val(tasks[k].updated_at) >= Val(tasks[k].created_at)

----------------------------------------------------------------------------
(* the records of CliUser in the collection a pull read *)
Pulled == Find(prev.remote, CliUser)

PulledIds == {Pulled[i].task_id : i \in 1..Len(Pulled)}

PullDone == WasSync("down") /\ ret.res.pull = "ok"

(* C6, as claimed: after a pull-direction sync every id with a remote      *)
(* record of the user holds exactly the remote data, every local-only task *)
(* is unchanged and every remote-only task has been added.                 *)
(* A remote record whose data does not deserialize is skipped, and a       *)
(* timestamp the remote data leaves out is filled in by the store.         *)
C6_PullOverridesLocal ==
    PullDone =>
        /\ \A i \in 1..Len(Pulled) :
              /\ Pulled[i].task_id \in DOMAIN tasks
              /\ ToDict(tasks[Pulled[i].task_id]) = Pulled[i].data
        /\ \A k \in DOMAIN prev.tasks \ PulledIds :
              k \in DOMAIN tasks /\ tasks[k] = prev.tasks[k]
        /\ DOMAIN tasks = DOMAIN prev.tasks \cup PulledIds

(* C6, amended: after a pull-direction sync every id with a remote record  *)
(* of the user whose data deserializes holds the task built from the       *)
(* remote data (its value in every field; the time of the import for a     *)
(* timestamp it leaves out), whatever the updated_at of the two copies;    *)
(* an id whose remote data does not deserialize keeps its local task, or   *)
(* stays absent; every local-only task is unchanged.                       *)
C6_PullOverridesLocalWithValid ==
    PullDone =>
        /\ \A i \in 1..Len(Pulled) :
              LET k == Pulled[i].task_id
                  d == Pulled[i].data
              IN  IF ValidValues(d)
                  THEN k \in DOMAIN tasks /\ HoldsData(tasks[k], d, now)
                  ELSE IF k \in DOMAIN prev.tasks
                       THEN k \in DOMAIN tasks /\ tasks[k] = prev.tasks[k]
                       ELSE k \notin DOMAIN tasks
        /\ \A k \in DOMAIN prev.tasks \ PulledIds :
              k \in DOMAIN tasks /\ tasks[k] = prev.tasks[k]
        /\ DOMAIN tasks \subseteq DOMAIN prev.tasks \cup PulledIds

\* a remote copy with an older updated_at has replaced a newer local one
C6_Witness ==
    /\ PullDone
    /\ \E i \in 1..Len(Pulled) :
          LET k == Pulled[i].task_id
              d == Pulled[i].data
          IN  /\ k \in DOMAIN prev.tasks
              /\ ValidValues(d)
              /\ ~IsNone(d.updated_at)
              /\ Val(d.updated_at) < Val(prev.tasks[k].updated_at)
              /\ prev.tasks[k].title # d.title
              /\ tasks[k].title = d.title
              /\ tasks[k].updated_at = d.updated_at

(* C7: in a both-direction sync entered while connected, the pull half is  *)
(* executed even when the push half failed with a CloudSyncError.          *)
(* sync_with_cloud holds both halves in one try block: the exception of    *)
(* the push half leaves the block before the pull half.                    *)
C7_PullRunsAfterPushFailure ==
    (WasSync("both") /\ ret.res.connected /\ ret.res.push = "failed"
        /\ ret.res.caught = "CloudSyncError")
    => ret.res.pull \in {"ok", "failed"}

(* C8: with the Remote Store unreachable (never configured, connect        *)
(* failed, or no answer to ping after a successful connect) the three data *)
(* operations return False / {} / False without raising and change neither *)
(* the collection nor the local store.                                     *)
(* is_connected does not catch the exception of a ping that gets no answer.*)
C8_UnreachableIsNoOp ==
    (ret.op \in {"push", "pull", "delete_one"}
        /\ (client # "connected" \/ ret.arg.at = "ping"))
    => /\ ret.raised = ""
       /\ IF ret.op = "pull" THEN ret.res = EmptyBatch ELSE ret.res = FALSE
       /\ remote = prev.remote
       /\ tasks = prev.tasks
       /\ disk = prev.disk

HasBadEntry(b) == \E k \in DOMAIN b.map : ~ValidValues(b.map[k])

(* C10: when an entry of the batch has an invalid priority or status,      *)
(* import_tasks does not raise, stores every valid entry whatever its      *)
(* position, leaves the task stored under the bad entry's key as it was    *)
(* (or the key absent), and writes the document once, after the loop.      *)
C10_ImportSkipsBadEntry ==
    (WasImport /\ HasBadEntry(ret.arg)) =>
        /\ ret.raised = ""
        /\ \A k \in DOMAIN ret.arg.map :
              IF ValidValues(ret.arg.map[k])
              THEN k \in DOMAIN tasks /\ HoldsData(tasks[k], ret.arg.map[k], now)
              ELSE IF k \in DOMAIN prev.tasks
                   THEN k \in DOMAIN tasks /\ tasks[k] = prev.tasks[k]
                   ELSE k \notin DOMAIN tasks
        /\ ret.saves = 1
        /\ disk = Some(Export(order, tasks))

\* a bad entry first, a valid one after it, and a task under the bad key
C10_Witness ==
    /\ WasImport
    /\ Len(ret.arg.order) = 2
    /\ ~ValidValues(ret.arg.map[ret.arg.order[1]])
    /\ ValidValues(ret.arg.map[ret.arg.order[2]])
    /\ ret.arg.order[1] \in DOMAIN prev.tasks
    /\ ret.arg.order[1] \in DOMAIN tasks
    /\ ret.arg.order[2] \notin DOMAIN prev.tasks
    /\ ret.arg.order[2] \in DOMAIN tasks

----------------------------------------------------------------------------
(* Claims about the queries *)

WasStatistics == ret.op = "statistics"

RECURSIVE SumOver(_, _)
\* the sum of the values of the mapping f over the keys S
SumOver(f, S) ==
    IF S = {} THEN 0
    ELSE LET k == CHOOSE x \in S : TRUE IN f[k] + SumOver(f, S \ {k})

PriorityValues == {"low", "medium", "high"}

StatusValues == {"pending", "in_progress", "completed", "cancelled"}

(* C11: whatever the store holds, get_task_statistics returns total equal  *)
(* to the number of stored tasks, and the counts of by_status, and those   *)
(* of by_priority, add up to total.                                        *)
C11_StatisticsConsistent ==
    WasStatistics =>
        /\ ret.res.total = Cardinality(DOMAIN tasks)
        /\ SumOver(ret.res.by_status, DOMAIN ret.res.by_status) = ret.res.total
        /\ SumOver(ret.res.by_priority, DOMAIN ret.res.by_priority) = ret.res.total

\* statistics of a store that holds tasks of two statuses and two priorities
C11_Witness ==
    /\ WasStatistics
    /\ ret.res.total >= 3
    /\ Cardinality({v \in DOMAIN ret.res.by_status : ret.res.by_status[v] > 0}) >= 2
    /\ Cardinality({v \in DOMAIN ret.res.by_priority : ret.res.by_priority[v] > 0}) >= 2

(* C12: in every state of the store, the empty one included,               *)
(* get_task_statistics returns a by_priority with an entry for each of     *)
(* low, medium, high and a by_status with an entry for each of pending,    *)
(* in_progress, completed, cancelled, the count being 0 where no task has  *)
(* the value.                                                              *)
(* On the empty store the code returns two empty mappings.                 *)
C12_EveryValueHasAnEntry ==
    WasStatistics =>
        /\ DOMAIN ret.res.by_priority = PriorityValues
        /\ DOMAIN ret.res.by_status = StatusValues
        /\ \A v \in PriorityValues :
              (\A k \in DOMAIN tasks : PriorityValue(tasks[k].priority) # v)
                  => ret.res.by_priority[v] = 0
        /\ \A v \in StatusValues :
              (\A k \in DOMAIN tasks : StatusValue(tasks[k].status) # v)
                  => ret.res.by_status[v] = 0

(* C13: get_task_statistics reports completed = the number of stored tasks *)
(* with status COMPLETED, pending = the number with status PENDING, and a  *)
(* completion_rate equal to 100 * completed / total, 0 on the empty store  *)
(* and between 0 and 100 always; after three add_task calls and            *)
(* complete_task("1") it reports total 3, completed 1, pending 2.          *)
C13_CompletedPendingRate ==
    WasStatistics =>
        LET st == ret.res
            rate == st.completion_rate
        IN  /\ st.completed = Cardinality({k \in DOMAIN tasks : tasks[k].status = "COMPLETED"})
            /\ st.pending = Cardinality({k \in DOMAIN tasks : tasks[k].status = "PENDING"})
            /\ rate.den > 0
            /\ IF st.total = 0 THEN rate.num = 0
               ELSE rate.num * st.total = 100 * st.completed * rate.den
            /\ 0 <= rate.num /\ rate.num <= 100 * rate.den
            /\ (addsOnly /\ Len(handed) = 3 /\ steps = 4
                   /\ tasks[DecStr(1)].status = "COMPLETED")
               => (st.total = 3 /\ st.completed = 1 /\ st.pending = 2
                      /\ rate.num * 3 = 100 * rate.den)

\* the statistics after three add_task calls and complete_task("1")
C13_Witness ==
    /\ WasStatistics
    /\ addsOnly /\ Len(handed) = 3 /\ steps = 4
    /\ tasks[DecStr(1)].status = "COMPLETED"
    /\ ret.res.total = 3 /\ ret.res.completed = 1 /\ ret.res.pending = 2

----------------------------------------------------------------------------
(* Claims about update, delete and the document *)

WasDelete == ret.op = "delete"

WasMutation == ret.op \in {"add", "update", "complete", "delete", "import"}

\* the arguments of the last update_task call, and the task before and after
Supplied(f) == ~IsNone(ret.arg[f])

\* every field of the task but completed_at and updated_at is as the call
\* says: the supplied value where one is supplied, the old value otherwise
FieldsAsSupplied(old, new) ==
    /\ new.id = old.id
    /\ new.created_at = old.created_at
    /\ new.title = (IF Supplied("title") THEN Val(ret.arg.title) ELSE old.title)
    /\ new.description = (IF Supplied("description") THEN ret.arg.description
                          ELSE old.description)
    /\ new.priority = (IF Supplied("priority") THEN Val(ret.arg.priority) ELSE old.priority)
    /\ new.status = (IF Supplied("status") THEN Val(ret.arg.status) ELSE old.status)
    /\ new.tags = (IF Supplied("tags") THEN Val(ret.arg.tags) ELSE old.tags)
    /\ new.due_date = (IF Supplied("due_date") THEN ret.arg.due_date ELSE old.due_date)

\* update_task of a key the store does not hold
UpdateOfAbsent ==
    /\ IsNone(ret.res)
    /\ ret.raised = ""
    /\ tasks = prev.tasks
    /\ order = prev.order
    /\ disk = prev.disk

\* nothing but the task under the key of the call has changed
OthersUnchanged ==
    /\ DOMAIN tasks = DOMAIN prev.tasks
    /\ order = prev.order
    /\ \A k \in DOMAIN tasks \ {ret.key} : tasks[k] = prev.tasks[k]

C15_DeleteRemovesOne ==
    (WasDelete /\ ret.raised = "") =>
        /\ ret.res = (ret.key \in DOMAIN prev.tasks)
        /\ ret.key \notin DOMAIN tasks
        /\ DOMAIN tasks = DOMAIN prev.tasks \ {ret.key}
        /\ \A k \in DOMAIN tasks : tasks[k] = prev.tasks[k]
        /\ ret.key \notin DOMAIN prev.tasks =>
              (tasks = prev.tasks /\ order = prev.order /\ disk = prev.disk)

\* the first of two tasks deleted
C15_Witness ==
    /\ WasDelete
    /\ ret.res = TRUE
    /\ ret.key = DecStr(1)
    /\ DOMAIN prev.tasks = {DecStr(1), DecStr(2)}
    /\ DOMAIN tasks = {DecStr(2)}

\* the document holds the whole mapping, and a store built on it holds it
DocumentIsMapping ==
    /\ disk = Some(Export(order, tasks))
    /\ LoadedTasks(disk, now) = tasks
    /\ LoadedOrder(disk) = order

(* C16, as claimed: whenever add_task, update_task, delete_task or         *)
(* import_tasks returns normally, the document is the serialization of the *)
(* whole mapping, and a TaskManager built on it holds the same ids and     *)
(* field values.                                                           *)
(* update_task and delete_task of an id the store does not hold return     *)
(* without writing: the document is then what the last write left, absent  *)
(* on a new store, behind the mapping after a write that failed.           *)
C16_DocumentIsMappingAfterReturn ==
    (WasMutation /\ ret.raised = "") => DocumentIsMapping

(* C16, amended: whenever add_task, import_tasks, or update_task or        *)
(* delete_task of an id the store holds, returns normally, the document    *)
(* is the serialization of the whole mapping, and a TaskManager built on   *)
(* it holds the same ids and field values; update_task and delete_task of  *)
(* an id the store does not hold leave the document as it was.             *)
C16_DocumentIsMappingAfterWrite ==
    /\ (WasMutation /\ ret.raised = "" /\ ret.saves = 1) => DocumentIsMapping
    /\ (WasMutation /\ ret.saves = 0) => disk = prev.disk
    /\ (ret.op = "init" /\ steps > 0 /\ prev.disk = Some(Export(prev.order, prev.tasks)))
          => (tasks = prev.tasks /\ order = prev.order)

\* a TaskManager built on the document two add_task calls wrote
C16_Witness ==
    /\ ret.op = "init"
    /\ steps = 3
    /\ Cardinality(DOMAIN tasks) = 2
    /\ tasks = prev.tasks
    /\ \E k \in DOMAIN tasks : tasks[k].priority = "HIGH" /\ tasks[k].tags # <<>>

(* C17: when the write of the document fails during add_task, update_task, *)
(* delete_task or import_tasks, the call raises the error to its caller    *)
(* and returns nothing.                                                    *)
C17_WriteFailureRaises ==
    (WasMutation /\ ret.saves = 1 /\ fs # "writable") =>
        (ret.raised = "OSError" /\ (ret.op # "import" => IsNone(ret.res)))

\* import_tasks on a full disk: the call raises and the document is cut
C17_Witness ==
    /\ WasImport
    /\ fs = "full"
    /\ ret.raised = "OSError"
    /\ disk = Some(Torn)
    /\ tasks # prev.tasks

----------------------------------------------------------------------------
(* Claims about search_tasks *)

WasSearch == ret.op = "search"

\* the text x, lower-cased, is found in the text y, lower-cased, at some
\* offset
FoundIn(x, y) ==
    \E off \in 0..Len(Chars(y)) :
        /\ off + Len(Chars(x)) <= Len(Chars(y))
        /\ \A j \in 1..Len(Chars(x)) :
              LowerChar(Chars(x)[j]) = LowerChar(Chars(y)[off + j])

\* x is found in the title, the description or a tag of the task t
Mentions(t, x) ==
    \/ FoundIn(x, t.title)
    \/ ~IsNone(t.description) /\ FoundIn(x, Val(t.description))
    \/ \E i \in 1..Len(t.tags) : FoundIn(x, t.tags[i])

(* C18: search_tasks(x) returns exactly the stored tasks that have         *)
(* lower-cased x as a substring of the lower-cased title, of the           *)
(* lower-cased description when there is one, or of a lower-cased tag:     *)
(* each of them once, in the order of the store, and no other task; the    *)
(* empty query returns every task.                                         *)
C18_SearchReturnsExactlyMatches ==
    WasSearch =>
        LET hits == SelectSeq(order, LAMBDA k : Mentions(tasks[k], ret.arg))
        IN  /\ Len(ret.res) = Len(hits)
            /\ \A i \in 1..Len(hits) : ret.res[i] = tasks[hits[i]]
            /\ ret.arg = "" => Len(ret.res) = Cardinality(DOMAIN tasks)

\* an upper-case query found in a tag only, in a store that holds a task it
\* is not found in
C18_Witness ==
    /\ WasSearch
    /\ ret.arg = "Work"
    /\ Len(ret.res) = 1
    /\ ~FoundIn("Work", ret.res[1].title)
    /\ Cardinality(DOMAIN tasks) >= 2

----------------------------------------------------------------------------
(* Claims about the health check and the failures of the sync engine *)

(* C19: get_cloud_health raises nothing and returns a result whose status  *)
(* is connected, disconnected or error, whether the client was never       *)
(* configured, failed to connect, is connected, or is connected to a       *)
(* server that no longer answers.                                          *)
(* The ping of is_connected runs before the try of get_cloud_health: when  *)
(* the server does not answer it, its exception leaves the health check.   *)
C19_HealthNeverRaises ==
    ret.op = "health" =>
        /\ ret.raised = ""
        /\ ret.res.status \in {"connected", "disconnected", "error"}

(* C20: when sync_tasks_to_cloud, sync_tasks_from_cloud or                 *)
(* delete_task_from_cloud has passed the connectivity check and its        *)
(* remote call (update_one, find, delete_one) fails, it raises a           *)
(* CloudSyncError built from that failure, and returns neither True,       *)
(* False nor an empty result.                                              *)
C20_RemoteFailureIsRaised ==
    (ret.op \in {"push", "pull", "delete_one"}
        /\ ret.arg.at \in {"update_one", "find", "delete_one"})
    => /\ ret.raised = "CloudSyncError"
       /\ ret.cause = Some(ret.arg)
       /\ IsNone(ret.res)

\* the second update_one of a push fails: the first record is in the
\* collection and the call raises
C20_Witness ==
    /\ ret.op = "push"
    /\ ret.arg = Failure("update_one", 2)
    /\ ret.raised = "CloudSyncError"
    /\ Len(remote) = Len(prev.remote) + 1

----------------------------------------------------------------------------
(* Claims about loading and the dictionary form of a task *)

WasLoad == ret.op = "init" /\ steps > 0

\* the document json.load or from_dict rejects
Malformed(d) ==
    /\ ~IsNone(d)
    /\ \/ Val(d) = Torn
       \/ \E k \in DOMAIN Val(d).map : ~ValidValues(Val(d).map[k])

(* C21: a TaskManager built on an absent document holds the empty mapping; *)
(* built on a document that does not parse, or that holds a task with an   *)
(* invalid priority or status, it raises nothing and holds the empty       *)
(* mapping, the valid tasks of that document being dropped too; built on   *)
(* any other document it holds the tasks of the document.                  *)
C21_LoadOfAbsentOrMalformed ==
    WasLoad =>
        /\ ret.raised = ""
        /\ (IsNone(prev.disk) \/ Malformed(prev.disk)) => (tasks = EmptyMap /\ order = <<>>)
        /\ (~IsNone(prev.disk) /\ ~Malformed(prev.disk)) =>
              /\ DOMAIN tasks = DOMAIN Val(prev.disk).map
              /\ \A k \in DOMAIN tasks : HoldsData(tasks[k], Val(prev.disk).map[k], now)
        /\ disk = prev.disk

\* a TaskManager built on a document with an invalid and a valid entry
C21_Witness ==
    /\ WasLoad
    /\ Malformed(prev.disk)
    /\ Val(prev.disk) # Torn
    /\ \E k \in DOMAIN Val(prev.disk).map : ValidValues(Val(prev.disk).map[k])
    /\ tasks = EmptyMap

(* C22: for every task t, of every priority and status, with and without   *)
(* description, completed_at, due_date and tags, from_dict(t.to_dict())    *)
(* equals t in every field, and to_dict writes the priority and the status *)
(* as the lower-case values of their enums.                                *)
C22_RoundTrip ==
    ret.op = "round_trip" =>
        /\ ret.res.back = ret.arg
        /\ \A f \in DOMAIN ret.arg : ret.res.back[f] = ret.arg[f]
        /\ ret.res.dict.priority \in PriorityValues
        /\ ret.res.dict.status \in StatusValues
        /\ PriorityOf(ret.res.dict.priority) = Some(ret.arg.priority)
        /\ StatusOf(ret.res.dict.status) = Some(ret.arg.status)
        /\ \A f \in DOMAIN ret.arg \ {"priority", "status"} : ret.res.dict[f] = ret.arg[f]

\* a cancelled task with every optional field set has made the round trip
C22_Witness ==
    /\ ret.op = "round_trip"
    /\ ret.arg.status = "CANCELLED"
    /\ ret.arg.priority = "LOW"
    /\ ~IsNone(ret.arg.description) /\ ~IsNone(ret.arg.completed_at)
    /\ ~IsNone(ret.arg.due_date) /\ ret.arg.tags # <<>>
    /\ ret.arg.updated_at # ret.arg.created_at
    /\ ret.res.dict.status = "cancelled"
    /\ ret.res.back = ret.arg

----------------------------------------------------------------------------
(* Claims about two instances on one document *)

(* C23: with two TaskManager instances on the same document, each adding   *)
(* and deleting tasks, in any interleaving, the document after a write is  *)
(* the whole mapping of the instance that wrote, whatever the other        *)
(* instance has written since that instance loaded.                        *)
(* The two writes can overlap: both open the file, the longer text is      *)
(* written, then the shorter one over its beginning; what is left is no    *)
(* document at all.                                                        *)
C23_LastWriterWins ==
    /\ ret.op = "written" => disk = Some(Export(order, tasks))
    /\ ret.op = "peer_written" => disk = Some(Export(peer.order, peer.tasks))

----------------------------------------------------------------------------
(* Claims about the collection *)

\* the positions of the records of task k and user u
RecordsOf(coll, k, u) == {i \in 1..Len(coll) : Matches(coll[i], k, u)}

WasPush == ret.op = "push"

(* C24: after any sequence of pushes and remote deletes, by any users, the *)
(* collection holds at most one record for each pair of task id and user;  *)
(* a push that succeeds leaves, for each task pushed, exactly one record   *)
(* of the user, holding the pushed data: where there was one its data is   *)
(* replaced, and the number of records grows by the number of the tasks    *)
(* that had none.                                                          *)
C24_OneRecordPerTaskAndUser ==
    /\ \A i, j \in 1..Len(remote) :
          Matches(remote[i], remote[j].task_id, remote[j].user_id) => i = j
    /\ (WasPush /\ ret.raised = "" /\ client = "connected") =>
          /\ \A k \in DOMAIN tasks :
                /\ Cardinality(RecordsOf(remote, k, ret.key)) = 1
                /\ \A i \in RecordsOf(remote, k, ret.key) : remote[i].data = ToDict(tasks[k])
          /\ Len(remote) = Len(prev.remote)
                + Cardinality({k \in DOMAIN tasks : RecordsOf(prev.remote, k, ret.key) = {}})

\* a push of a task whose id had a record of the user with other data
C24_Witness ==
    /\ WasPush
    /\ ret.raised = ""
    /\ client = "connected"
    /\ Len(remote) = Len(prev.remote)
    /\ \E k \in DOMAIN tasks :
          /\ RecordsOf(prev.remote, k, ret.key) # {}
          /\ \A i \in RecordsOf(prev.remote, k, ret.key) :
                prev.remote[i].data # ToDict(tasks[k])

----------------------------------------------------------------------------
(* Claims about add_task *)

\* add_task has returned
Added == ret.op = "add" /\ ret.raised = ""

(* C25: add_task returns the task it stored under the new id; the task has *)
(* the title, description, tags and due date of the call, the priority of  *)
(* the call (MEDIUM when none is given), status PENDING, no completed_at,  *)
(* and created_at = updated_at; on an empty store the id is "1", so that   *)
(* tasks["1"] of an add with priority HIGH has priority high, status       *)
(* pending.                                                                *)
C25_AddStoresWhatWasGiven ==
    Added =>
       /\ ret.key \in DOMAIN tasks
       /\ ret.res = Some(tasks[ret.key])
       /\ LET t == tasks[ret.key]
              a == ret.arg
          IN  /\ t.id = ret.key
              /\ t.title = a.title
              /\ t.description = a.description
              /\ t.tags = a.tags
              /\ t.due_date = a.due_date
              /\ t.priority = (IF IsNone(a.priority) THEN "MEDIUM" ELSE Val(a.priority))
              /\ t.status = "PENDING"
              /\ IsNone(t.completed_at)
              /\ ~IsNone(t.created_at)
              /\ t.created_at = t.updated_at
              /\ ToDict(t).status = "pending"
              /\ ~IsNone(a.priority) /\ Val(a.priority) = "HIGH" => ToDict(t).priority = "high"
       /\ prev.tasks = EmptyMap => ret.key = DecStr(1)

\* an add with priority HIGH on an empty store, read back under "1"
C25_Witness ==
    /\ Added
    /\ prev.tasks = EmptyMap
    /\ ret.arg.priority = Some("HIGH")
    /\ DecStr(1) \in DOMAIN tasks
    /\ tasks[DecStr(1)].priority = "HIGH"
    /\ tasks[DecStr(1)].status = "PENDING"

(* C26: an add_task that returns leaves every task that was in the store   *)
(* before the call present and unchanged, and the store has one task more. *)
C26_AddKeepsExistingTasks ==
    Added =>
       /\ \A k \in DOMAIN prev.tasks : k \in DOMAIN tasks /\ tasks[k] = prev.tasks[k]
       /\ Cardinality(DOMAIN tasks) = Cardinality(DOMAIN prev.tasks) + 1

----------------------------------------------------------------------------
(* Claims about the two copies *)

\* the ids of the records of user u
RemoteIds(coll, u) == {Find(coll, u)[i].task_id : i \in 1..Len(Find(coll, u))}

\* sync_with_cloud("both") ran to its end: connected, nothing raised
BothDone ==
    /\ WasSync("both")
    /\ ret.arg[2] = NoFailure
    /\ ret.res.connected
    /\ ret.res.caught = ""

\* every record of the user that the sync found has a priority and a status
\* that deserialize
RemoteWasValid ==
    \A i \in 1..Len(Find(prev.remote, CliUser)) : ValidValues(Find(prev.remote, CliUser)[i].data)

(* C27, as claimed: after a both-direction sync that ran to its end while  *)
(* every record of the user held valid data, the local store and the       *)
(* user's records have the same ids, and for every id the local task's     *)
(* data equals the record's data.                                          *)
(* A record whose data leaves out created_at or updated_at is imported     *)
(* with the time of the import, and the record is not written back.        *)
C27_BothSyncConverges ==
    (BothDone /\ RemoteWasValid) =>
        /\ RemoteIds(remote, CliUser) = DOMAIN tasks
        /\ \A i \in 1..Len(Find(remote, CliUser)) :
              LET r == Find(remote, CliUser)[i]
              IN  r.task_id \in DOMAIN tasks => ToDict(tasks[r.task_id]) = r.data

(* C27, amended: after such a sync the two copies have the same ids, and   *)
(* for every id the local task has the record's data in every field, but   *)
(* for a created_at or updated_at that the record leaves out: the local    *)
(* task has the time of the import there (updated_at = created_at when     *)
(* both are left out).                                                     *)
C27_BothSyncConvergesButStamps ==
    (BothDone /\ RemoteWasValid) =>
        /\ RemoteIds(remote, CliUser) = DOMAIN tasks
        /\ \A i \in 1..Len(Find(remote, CliUser)) :
              LET r == Find(remote, CliUser)[i]
              IN  /\ r.task_id \in DOMAIN tasks
                  /\ HoldsData(tasks[r.task_id], r.data, now)
                  /\ (~IsNone(r.data.created_at) /\ ~IsNone(r.data.updated_at)) =>
                        ToDict(tasks[r.task_id]) = r.data

\* a sync that pushed a task the collection did not have and pulled a
\* record the store did not have
C27_Witness ==
    /\ BothDone
    /\ RemoteWasValid
    /\ \E k \in DOMAIN prev.tasks : k \notin RemoteIds(prev.remote, CliUser)
    /\ \E k \in RemoteIds(prev.remote, CliUser) : k \notin DOMAIN prev.tasks
    /\ RemoteIds(remote, CliUser) = DOMAIN tasks

----------------------------------------------------------------------------
(* Claims about the commands *)

\* the records of the user hold the ids of the store, one record each, with
\* the data of the task stored under the id
Mirror ==
    /\ RemoteIds(remote, CliUser) = DOMAIN tasks
    /\ Len(Find(remote, CliUser)) = Cardinality(DOMAIN tasks)
    /\ \A i \in 1..Len(Find(remote, CliUser)) :
          LET r == Find(remote, CliUser)[i]
          IN  r.task_id \in DOMAIN tasks /\ r.data = ToDict(tasks[r.task_id])

(* C28: from a store and a collection that are both empty, as long as the  *)
(* client is connected and no remote call of a command has raised, after   *)
(* every add, update, complete and delete command the records of the user  *)
(* hold the ids of the store, each with the data of the stored task.       *)
C28_CommandsMirror ==
    (client = "connected" /\ ~outage) => Mirror

\* a delete command has removed the record of one task and left another
C28_Witness ==
    /\ client = "connected"
    /\ ~outage
    /\ ret.op = "cli_delete"
    /\ ret.key \in DOMAIN prev.tasks
    /\ HasRecord(prev.remote, ret.key, CliUser)
    /\ ~HasRecord(remote, ret.key, CliUser)
    /\ tasks # EmptyMap
    /\ Mirror

(* C29: in every state reached by add_task, update_task, complete_task,    *)
(* delete_task, pushes and pulls, with no other writer of the collection,  *)
(* every task of the store is stored under its own id, and every record    *)
(* of the collection has the task_id that its data has as id.              *)
C29_KeysAgreeWithIds ==
    /\ \A k \in DOMAIN tasks : tasks[k].id = k
    /\ \A i \in 1..Len(remote) : remote[i].task_id = remote[i].data.id

\* a both-direction sync has pushed two tasks and imported their records
C29_Witness ==
    /\ ret.op = "sync"
    /\ ~IsNone(ret.res.imported)
    /\ prev.remote = <<>>
    /\ Len(remote) = 2
    /\ Cardinality(DOMAIN tasks) = 2
    /\ \A i \in 1..Len(remote) : remote[i].data = ToDict(tasks[remote[i].task_id])

----------------------------------------------------------------------------
(* Claims about what a push and a pull leave alone *)

\* the local store is as it was before the call
LocalUnchanged == tasks = prev.tasks /\ order = prev.order /\ disk = prev.disk

\* no record removed or moved; the records of users other than u as they
\* were; every record added is a record of u
PushFrame(u) ==
    /\ Len(remote) >= Len(prev.remote)
    /\ \A i \in 1..Len(prev.remote) :
          /\ remote[i].task_id = prev.remote[i].task_id
          /\ remote[i].user_id = prev.remote[i].user_id
          /\ prev.remote[i].user_id # u => remote[i] = prev.remote[i]
    /\ \A i \in (Len(prev.remote) + 1)..Len(remote) : remote[i].user_id = u

\* every task the store has gained or changed is the data of a record of u
OnlyFrom(u) ==
    \A k \in DOMAIN tasks :
       (k \notin DOMAIN prev.tasks \/ tasks[k] # prev.tasks[k]) =>
          \E i \in 1..Len(remote) :
             /\ Matches(remote[i], k, u)
             /\ HoldsData(tasks[k], remote[i].data, now)

(* C30: sync_tasks_to_cloud(tasks, u), whether it returns or raises,       *)
(* leaves the local store as it was, removes no record, and neither adds   *)
(* nor changes a record of another user; sync_tasks_from_cloud(u) leaves   *)
(* the collection as it was and returns only data of records of u, each    *)
(* under the record's task_id; a sync with cloud pushes and pulls for      *)
(* default_user alone, so the store gains or changes a task only from a    *)
(* record of default_user.                                                 *)
C30_SyncFrame ==
    /\ WasPush => LocalUnchanged /\ PushFrame(ret.key)
    /\ ret.op = "pull" =>
          /\ LocalUnchanged
          /\ remote = prev.remote
          /\ ret.raised = "" =>
                \A k \in DOMAIN ret.res.map :
                   \E i \in 1..Len(remote) :
                      Matches(remote[i], k, ret.key) /\ remote[i].data = ret.res.map[k]
    /\ ret.op = "sync" =>
          /\ PushFrame(CliUser)
          /\ ret.res.pull = "not_run" => LocalUnchanged
          /\ ret.res.push = "not_run" => remote = prev.remote
          /\ OnlyFrom(CliUser)

\* a pull for default_user has returned a record of default_user from a
\* collection that holds a record of the other user too
C30_Witness ==
    /\ ret.op = "pull"
    /\ ret.key = CliUser
    /\ ret.raised = ""
    /\ DOMAIN ret.res.map # {}
    /\ \E i \in 1..Len(remote) : remote[i].user_id # CliUser

====
